---- MODULE Spec2Model ----
(***************************************************************************)
(* BitMon: cross-chain atomic swap between an EVM chain (Monad) and        *)
(* Bitcoin.  The model follows one order file through the step scripts of  *)
(* the forward flow (Monad -> BTC) and of the reverse flow (BTC -> Monad), *)
(* together with the Bitcoin HTLC output and the EVM escrow the scripts    *)
(* act on.                                                                 *)
(***************************************************************************)
EXTENDS Integers, Sequences, FiniteSets, TLC

\* ------------------------------------------------------------------ bounds
\* Wall-clock advances in steps of TickSeconds up to MaxTime (seconds).
TickSeconds == 1800
MaxTime == 3600
\* Secrets are drawn from 1..NumSecrets.
NumSecrets == 2
\* At most MaxFundings funding transactions and MaxEscrows escrows are created.
MaxFundings == 2
MaxEscrows == 2
\* Hash values are HashOffset + secret, a range disjoint from the secrets.
HashOffset == 100

\* ------------------------------------------------------- program constants
\* timelock.withdrawalPeriod and timelock.cancellationPeriod of a new order
WithdrawalPeriod == 0
CancellationPeriod == 3600
\* maker-htlc-reverse: locktime = now + 3600
ReverseLocktimeDelta == 3600

Secrets == 1..NumSecrets

\* SHA-256 of a secret: injective, and never the secret itself.
Sha256(s) == HashOffset + s

Hashlocks == {Sha256(s) : s \in Secrets}

\* ------------------------------------------------------------------- state
VARIABLES
    order,    \* the persisted order file (orders/<orderId>.json)
    now,      \* wall-clock and block time in seconds
    btc,      \* outputs paid to the HTLC address on the Bitcoin network
    evm,      \* the factory's deployments and the escrow the order refers to
    last,     \* the last script run: its name, outcome and what it submitted,
              \* and the steps that have succeeded so far
    built     \* the transaction builder: its HTLC configuration, the call made
              \* last and what that call produced

vars == <<order, now, btc, evm, last, built>>

NoHTLC == [present |-> FALSE, senderPublicKey |-> "none", receiverPublicKey |-> "none",
           hashlock |-> 0, locktime |-> 0]

NoEscrow == [present |-> FALSE, address |-> "none"]

NoTransactions == [bitcoinHTLCCreation |-> "none", bitcoinHTLCFunding |-> "none",
                   monadvmEscrowCreation |-> "none", bitcoinHTLCClaim |-> "none",
                   monadvmEscrowClaim |-> "none"]

NoOrder == [flow |-> "none", status |-> "NONE", secret |-> 0, hashlock |-> 0,
            taker |-> FALSE, bitcoinHTLC |-> NoHTLC, monadvmEscrow |-> NoEscrow,
            transactions |-> NoTransactions]

\* fundTxs: funding transactions accepted; claimTo / refundTo: who spent an HTLC
\* output through the secret branch / the timeout branch; witnessSecret: the
\* secret revealed in the witness of the accepted claim.
NoBtc == [fundTxs |-> 0, claimTo |-> "none", refundTo |-> "none", witnessSecret |-> 0]

\* created: escrows deployed by the factory; kind .. depositTo describe the escrow
\* deployed last; calldata: the data of the last withdraw transaction.
NoEvm == [created |-> 0, kind |-> "none", state |-> "none", deployedAt |-> 0,
          hashlock |-> 0, amountTo |-> "none", depositTo |-> "none",
          calldata |-> <<>>]

\* No builder has been constructed and no builder call has been made.
NoBuilt == [op |-> "none"]

NoRun == [step |-> "none", ok |-> FALSE, sent |-> {}, seq |-> 0, succeeded |-> {}]

\* The record of a script run; seq alternates so that every run is a visible
\* step, and succeeded collects the steps that have completed on the order.
Ran(step, ok, sent) ==
    [step |-> step, ok |-> ok, sent |-> sent, seq |-> 1 - last.seq,
     succeeded |-> IF ok THEN last.succeeded \cup {step} ELSE last.succeeded]

\* A script that throws before writing: the order file and both chains are untouched.
Fails(step) ==
    /\ last' = Ran(step, FALSE, {})
    /\ UNCHANGED <<order, now, btc, evm, built>>

\* A script that writes the order file o and leaves both chains as they are.
Writes(step, o, sent) ==
    /\ order' = o
    /\ last' = Ran(step, TRUE, sent)

Init ==
    /\ order = NoOrder
    /\ now = 0
    /\ btc = NoBtc
    /\ evm = NoEvm
    /\ last = NoRun
    /\ built = NoBuilt

Tick ==
    /\ now + TickSeconds <= MaxTime
    /\ now' = now + TickSeconds
    /\ UNCHANGED <<order, btc, evm, last, built>>

\* -------------------------------------------------------- Bitcoin network
UnspentHTLCOutputs ==
    btc.fundTxs - (IF btc.claimTo = "none" THEN 0 ELSE 1)
                - (IF btc.refundTo = "none" THEN 0 ELSE 1)

\* The HTLC script: OP_IF OP_SHA256 <hashlock> OP_EQUALVERIFY <receiver> OP_CHECKSIG
\* OP_ELSE <locktime> OP_CHECKLOCKTIMEVERIFY OP_DROP <sender> OP_CHECKSIG OP_ENDIF
SecretPathValid(htlc, secret, signer) ==
    /\ Sha256(secret) = htlc.hashlock
    /\ signer = htlc.receiverPublicKey

TimeoutPathValid(htlc, signer) ==
    /\ now >= htlc.locktime
    /\ signer = htlc.senderPublicKey

\* A transaction id the network knows, as opposed to a "sim_..." / "real_..."
\* placeholder or a missing reference.
IsTxid(ref) == ref = "real"

\* The network accepts a claim of an HTLC output.
ClaimAcceptable(htlc, fundingRef, secret, signer) ==
    /\ IsTxid(fundingRef)
    /\ UnspentHTLCOutputs > 0
    /\ SecretPathValid(htlc, secret, signer)

\* createRefundTransaction: the sender takes an output back after the locktime.
BtcRefund ==
    /\ order.bitcoinHTLC.present
    /\ UnspentHTLCOutputs > 0
    /\ btc.refundTo = "none"
    /\ TimeoutPathValid(order.bitcoinHTLC, order.bitcoinHTLC.senderPublicKey)
    /\ btc' = [btc EXCEPT !.refundTo = order.bitcoinHTLC.senderPublicKey]
    /\ UNCHANGED <<order, now, evm, last, built>>

\* ------------------------------------------------------------ byte strings
\* Byte strings are sequences of numbers in 0..255, hexadecimal strings
\* sequences of digits 0..15 (without the 0x prefix).
Repeat(b, n) == [i \in 1..n |-> b]

\* A SHA-256 digest: 32 bytes.
HashBytes(h) == Repeat(h % 256, 32)

SecretLength == 32

\* The 32 bytes of a secret of the model, and the secret of 32 such bytes.
SecretBytes(s) == Repeat(s, SecretLength)

SecretOfBytes(bytes) == bytes[1]

\* crypto.createHash('sha256') of a secret of the model.
Sha256Bytes(bytes) == HashBytes(Sha256(bytes[1]))

\* Buffer.toString('hex'): two hexadecimal digits per byte, as numbers 0..15.
HexString(bytes) ==
    [i \in 1..(2 * Len(bytes)) |->
        IF i % 2 = 1 THEN bytes[(i + 1) \div 2] \div 16 ELSE bytes[i \div 2] % 16]

\* Buffer.from(hex, 'hex').
HexToBytes(hex) == [i \in 1..(Len(hex) \div 2) |-> 16 * hex[2 * i - 1] + hex[2 * i]]

\* The data of a transaction calling withdraw(bytes32 secret, Immutables):
\* the 4-byte selector, the secret, then the words of the immutables (of
\* which the hashlock is kept).
WithdrawSelector == Repeat(0, 4)

WithdrawCalldata(secret, hashlock) ==
    HexString(WithdrawSelector \o SecretBytes(secret) \o HashBytes(hashlock))

\* tx.data.length, the 0x prefix counted.
TxDataLength(data) == 2 + Len(data)

\* An extraction that forgets the 0x prefix; C38 does not survive it.
ExtractedSecretWithoutPrefix(data) == SubSeq(data, 11, 74)

\* "0x" + tx.data.substring(10, 74): the 64 digits after 0x and the selector.
ExtractedSecret(data) == SubSeq(data, 9, 72)

\* The secret a reader of the transaction finds, 0 when there is none.
CalldataSecret(data) ==
    IF TxDataLength(data) >= 74
    THEN SecretOfBytes(HexToBytes(ExtractedSecret(data)))
    ELSE 0

\* ------------------------------------------------------- escrow contracts
TimelockGet(deployedAt, period) == deployedAt + period

OnlyAfter(start) == now >= start

\* onlyBefore that still admits the stop time itself; C35 does not survive it.
OnlyBeforeInclusive(stop) == now <= stop

OnlyBefore(stop) == now < stop

OnlyValidSecret(secret, hashlock) == Sha256(secret) = hashlock

\* BTCEscrowSrc.withdraw / BTCEscrowDst.withdraw
EscrowWithdrawAllowed(secret, caller) ==
    /\ evm.state = "locked"
    /\ OnlyValidSecret(secret, evm.hashlock)
    /\ OnlyAfter(TimelockGet(evm.deployedAt, WithdrawalPeriod))
    /\ OnlyBefore(TimelockGet(evm.deployedAt, CancellationPeriod))
    /\ caller \in {"maker", "taker"}

\* _withdraw with the recipients of the two escrows exchanged; C36 does not
\* survive it.
AfterWithdrawExchanged(secret) ==
    [evm EXCEPT !.state = "withdrawn",
                !.amountTo = IF evm.kind = "src" THEN "maker" ELSE "taker",
                !.depositTo = IF evm.kind = "src" THEN "taker" ELSE "maker",
                !.calldata = WithdrawCalldata(secret, order.hashlock)]

\* _withdraw: the source escrow pays the taker, the destination escrow the maker.
AfterWithdraw(secret) ==
    [evm EXCEPT !.state = "withdrawn",
                !.amountTo = IF evm.kind = "src" THEN "taker" ELSE "maker",
                !.depositTo = IF evm.kind = "src" THEN "maker" ELSE "taker",
                !.calldata = WithdrawCalldata(secret, order.hashlock)]

\* cancel: onlyMaker on the source escrow, onlyTaker on the destination escrow.
EscrowCancel ==
    /\ evm.state = "locked"
    /\ OnlyAfter(TimelockGet(evm.deployedAt, CancellationPeriod))
    /\ evm' = [evm EXCEPT !.state = "cancelled",
                          !.amountTo = IF evm.kind = "src" THEN "maker" ELSE "taker",
                          !.depositTo = IF evm.kind = "src" THEN "maker" ELSE "taker"]
    /\ UNCHANGED <<order, now, btc, last, built>>

\* createSrcEscrow / createDstEscrow -> _deployEscrow: deployedAt = block.timestamp
Deployed(kind, hashlock) ==
    [evm EXCEPT !.created = evm.created + 1, !.kind = kind, !.state = "locked",
                !.deployedAt = now, !.hashlock = hashlock,
                !.amountTo = "none", !.depositTo = "none"]

\* addressOfEscrowSrc / addressOfEscrowDst hash the immutables with the
\* block.timestamp of the view call: the escrow's address when that is the
\* deployment block's timestamp, an address without code otherwise.
ComputedAddresses == {"escrow", "empty"}

\* A withdraw call sent by a script to the address recorded in the order:
\* "sent" to an address without code (mined, no effect), "paid" by the escrow,
\* "revert" when the escrow's checks fail at gas estimation.
WithdrawOutcome(o, secret, caller) ==
    IF o.monadvmEscrow.address = "escrow"
    THEN IF EscrowWithdrawAllowed(secret, caller) THEN "paid" ELSE "revert"
    ELSE "sent"

EvmAfterCall(outcome, secret) ==
    IF outcome = "paid" THEN AfterWithdraw(secret)
    ELSE [evm EXCEPT !.calldata = WithdrawCalldata(secret, order.hashlock)]

\* ---------------------------------------------------------- forward flow
\* Monad -> BTC: the maker escrows ETH, the taker funds a Bitcoin HTLC, the
\* maker claims the BTC revealing the secret, the taker withdraws the ETH.

\* create-order-immediate.ts / create-order-reverse.ts: a fresh secret,
\* hashlock = sha256(secret), status CREATED.
NewOrder(flow, s) ==
    [NoOrder EXCEPT !.flow = flow, !.status = "CREATED", !.secret = s,
                    !.hashlock = Sha256(s)]

CreateOrder ==
    /\ order.flow = "none"
    /\ \E s \in Secrets : Writes("CreateOrder", NewOrder("forward", s), {})
    /\ UNCHANGED <<now, btc, evm, built>>

NewHTLC(sender, receiver, hashlock, locktime) ==
    [present |-> TRUE, senderPublicKey |-> sender, receiverPublicKey |-> receiver,
     hashlock |-> hashlock, locktime |-> locktime]

\* fill order (taker): the taker's HTLC pays the maker on the secret branch.
FillOrderGuard(o) == o.status = "CREATED"

\* An HTLC configuration that carries the secret where the hashlock belongs;
\* C28 does not survive it.
FillOrderHTLCWithSecret(o) ==
    NewHTLC("taker", "maker", o.secret, now + CancellationPeriod)

FillOrderHTLC(o) ==
    NewHTLC("taker", "maker", o.hashlock, now + CancellationPeriod)

FillOrder ==
    /\ order.flow = "forward"
    /\ IF ~FillOrderGuard(order) THEN Fails("FillOrder")
       ELSE \/ Fails("FillOrder")
            \/ /\ Writes("FillOrder",
                         [order EXCEPT !.taker = TRUE,
                                       !.bitcoinHTLC = FillOrderHTLC(order),
                                       !.status = "FILLED",
                                       !.transactions = NoTransactions], {})
               /\ UNCHANGED <<now, btc, evm, built>>

\* maker-escrow.ts: creates the source escrow; the status stays FILLED.
MakerEscrowGuard(o) ==
    /\ o.status = "FILLED"
    /\ o.taker
    /\ o.bitcoinHTLC.present

MakerEscrow ==
    /\ order.flow = "forward"
    /\ IF ~MakerEscrowGuard(order) THEN Fails("MakerEscrow")
       ELSE \/ Fails("MakerEscrow")
            \/ /\ evm.created < MaxEscrows
               /\ evm' = Deployed("src", order.hashlock)
               /\ \E a \in ComputedAddresses :
                    Writes("MakerEscrow",
                           [order EXCEPT !.monadvmEscrow = [present |-> TRUE, address |-> a],
                                         !.transactions.monadvmEscrowCreation = "tx"],
                           {"escrowTx"})
               /\ UNCHANGED <<now, btc, built>>

\* taker-fund-htlc-real.ts: runs fund-htlc; when that fails the catch block
\* records a simulated funding reference and still writes FUNDED.
\* The guard without its escrow conjunct; C6 does not survive it.
TakerFundGuardWithoutEscrow(o) ==
    /\ o.taker
    /\ o.bitcoinHTLC.present

TakerFundGuard(o) ==
    /\ o.taker
    /\ o.bitcoinHTLC.present
    /\ o.monadvmEscrow.present

TakerFundHTLC ==
    /\ order.flow = "forward"
    /\ IF ~TakerFundGuard(order) THEN Fails("TakerFundHTLC")
       ELSE \/ /\ btc.fundTxs < MaxFundings
               /\ btc' = [btc EXCEPT !.fundTxs = btc.fundTxs + 1]
               /\ Writes("TakerFundHTLC",
                         [order EXCEPT !.status = "FUNDED",
                                       !.transactions.bitcoinHTLCFunding = "real"],
                         {"fundTx"})
               /\ UNCHANGED <<now, evm, built>>
            \/ /\ Writes("TakerFundHTLC",
                         [order EXCEPT !.status = "FUNDED",
                                       !.transactions.bitcoinHTLCFunding = "sim"],
                         {})
               /\ UNCHANGED <<now, btc, evm, built>>

\* maker-claim-btc.ts: spawns "create-htlc claim" and writes COMPLETED when it
\* exits with code 0 and prints a transaction id.
MakerClaimBTCGuard(o) ==
    /\ o.status = "FUNDED"
    /\ o.taker
    /\ o.bitcoinHTLC.present
    /\ o.monadvmEscrow.present

SecretMatches(o) == Sha256(o.secret) = o.hashlock

\* create-htlc.ts createClaimTx -> htlc-builder createClaimTransaction: throws
\* when the secret does not hash to the HTLC's hashlock or the funding
\* reference is not a transaction id.
ClaimTxBuilds(o) ==
    /\ Sha256(o.secret) = o.bitcoinHTLC.hashlock
    /\ IsTxid(o.transactions.bitcoinHTLCFunding)

\* createClaimTx returns the broadcast txid, or the locally computed txid when
\* the broadcast failed; either way the command exits with code 0.
ClaimTxResults(accepted) == IF accepted THEN {"real", "local"} ELSE {"local"}

MakerClaimBTC ==
    /\ order.flow = "forward"
    /\ IF ~MakerClaimBTCGuard(order) \/ ~SecretMatches(order) \/ ~ClaimTxBuilds(order)
       THEN Fails("MakerClaimBTC")
       ELSE \E r \in ClaimTxResults(ClaimAcceptable(order.bitcoinHTLC,
                                        order.transactions.bitcoinHTLCFunding,
                                        order.secret, "maker")) :
              /\ btc' = IF r = "real"
                        THEN [btc EXCEPT !.claimTo = "maker", !.witnessSecret = order.secret]
                        ELSE btc
              /\ Writes("MakerClaimBTC",
                        [order EXCEPT !.status = "COMPLETED",
                                      !.transactions.bitcoinHTLCClaim = r],
                        {"claimTx"})
              /\ UNCHANGED <<now, evm, built>>

\* taker claim (forward): reads the secret from the witness of the BTC claim
\* transaction; when the transaction cannot be fetched or parsed the catch
\* block takes order.secret instead.
TakerClaimETHGuard(o) ==
    /\ o.status = "COMPLETED"
    /\ o.taker
    /\ o.bitcoinHTLC.present
    /\ o.monadvmEscrow.present
    /\ o.transactions.bitcoinHTLCClaim # "none"

ExtractedSecrets(o) ==
    IF o.transactions.bitcoinHTLCClaim = "real" /\ btc.claimTo # "none"
    THEN {btc.witnessSecret, o.secret}
    ELSE {o.secret}

TakerClaimETH ==
    /\ order.flow = "forward"
    /\ IF ~TakerClaimETHGuard(order) THEN Fails("TakerClaimETH")
       ELSE \E x \in ExtractedSecrets(order) :
              LET outcome == WithdrawOutcome(order, x, "taker") IN
              IF Sha256(x) # order.hashlock \/ outcome = "revert"
              THEN Fails("TakerClaimETH")
              ELSE \/ Fails("TakerClaimETH")
                   \/ /\ evm' = EvmAfterCall(outcome, x)
                      /\ Writes("TakerClaimETH",
                                [order EXCEPT !.transactions.monadvmEscrowClaim = "tx"],
                                {"withdrawTx"})
                      /\ UNCHANGED <<now, btc, built>>

\* ---------------------------------------------------------- reverse flow
\* BTC -> Monad: the maker creates and funds a Bitcoin HTLC, the taker escrows
\* ETH, the maker withdraws the ETH revealing the secret, the taker claims BTC.

CreateOrderReverse ==
    /\ order.flow = "none"
    /\ \E s \in Secrets : Writes("CreateOrderReverse", NewOrder("reverse", s), {})
    /\ UNCHANGED <<now, btc, evm, built>>

\* maker-htlc-reverse.ts: senderPublicKey and receiverPublicKey are both
\* order.maker.publicKey; the status stays CREATED.
MakerHTLCReverseGuard(o) == o.status = "CREATED"

MakerHTLCReverseConfig(o) ==
    NewHTLC("maker", "maker", o.hashlock, now + ReverseLocktimeDelta)

MakerHTLCReverse ==
    /\ order.flow = "reverse"
    /\ IF ~MakerHTLCReverseGuard(order) THEN Fails("MakerHTLCReverse")
       ELSE \/ Fails("MakerHTLCReverse")
            \/ /\ Writes("MakerHTLCReverse",
                         [order EXCEPT !.bitcoinHTLC = MakerHTLCReverseConfig(order),
                                       !.transactions.bitcoinHTLCCreation = "file"], {})
               /\ UNCHANGED <<now, btc, evm, built>>

\* reverse maker fund: requires only order.bitcoinHTLC; writes FUNDED.
MakerFundReverseGuard(o) == o.bitcoinHTLC.present

MakerFundReverse ==
    /\ order.flow = "reverse"
    /\ IF ~MakerFundReverseGuard(order) THEN Fails("MakerFundReverse")
       ELSE \/ Fails("MakerFundReverse")
            \/ /\ btc.fundTxs < MaxFundings
               /\ btc' = [btc EXCEPT !.fundTxs = btc.fundTxs + 1]
               /\ Writes("MakerFundReverse",
                         [order EXCEPT !.transactions.bitcoinHTLCFunding = "real",
                                       !.status = "FUNDED"],
                         {"fundTx"})
               /\ UNCHANGED <<now, evm, built>>

\* taker-escrow-reverse.ts: creates the destination escrow and writes FILLED.
\* The guard without its status conjunct; C13 does not survive it.
TakerEscrowReverseGuardWithoutStatus(o) == o.bitcoinHTLC.present

TakerEscrowReverseGuard(o) ==
    /\ o.status = "FUNDED"
    /\ o.bitcoinHTLC.present

TakerEscrowReverse ==
    /\ order.flow = "reverse"
    /\ IF ~TakerEscrowReverseGuard(order) THEN Fails("TakerEscrowReverse")
       ELSE \/ Fails("TakerEscrowReverse")
            \/ /\ evm.created < MaxEscrows
               /\ evm' = Deployed("dst", order.hashlock)
               /\ \E a \in ComputedAddresses :
                    Writes("TakerEscrowReverse",
                           [order EXCEPT !.monadvmEscrow = [present |-> TRUE, address |-> a],
                                         !.taker = TRUE,
                                         !.status = "FILLED",
                                         !.transactions.monadvmEscrowCreation = "tx"],
                           {"escrowTx"})
               /\ UNCHANGED <<now, btc, built>>

\* maker-claim-eth-reverse.ts: no status guard; the secret validation only
\* logs its result; withdraw is called with order.secret.
\* The guard without its funding-reference conjunct; C7 does not survive it.
MakerClaimETHReverseGuardWithoutFunding(o) ==
    /\ o.bitcoinHTLC.present
    /\ o.taker
    /\ o.monadvmEscrow.present

MakerClaimETHReverseGuard(o) ==
    /\ o.bitcoinHTLC.present
    /\ o.taker
    /\ o.monadvmEscrow.present
    /\ o.transactions.bitcoinHTLCFunding # "none"

MakerClaimETHReverse ==
    /\ order.flow = "reverse"
    /\ LET outcome == WithdrawOutcome(order, order.secret, "maker") IN
       IF ~MakerClaimETHReverseGuard(order) \/ outcome = "revert"
       THEN Fails("MakerClaimETHReverse")
       ELSE \/ Fails("MakerClaimETHReverse")
            \/ /\ evm' = EvmAfterCall(outcome, order.secret)
               /\ Writes("MakerClaimETHReverse",
                         [order EXCEPT !.transactions.monadvmEscrowClaim = "tx",
                                       !.status = "COMPLETED"],
                         {"withdrawTx"})
               /\ UNCHANGED <<now, btc, built>>

\* taker-claim-btc-reverse.ts: takes the secret from the calldata of the
\* maker's withdraw call and claims the HTLC with claimHTLC.
TakerClaimBTCReverseGuard(o) ==
    /\ o.bitcoinHTLC.present
    /\ o.taker
    /\ o.monadvmEscrow.present
    /\ o.transactions.bitcoinHTLCFunding # "none"
    /\ o.transactions.monadvmEscrowClaim # "none"

\* claim-htlc-reverse.ts claimHTLC: throws when the secret does not hash to the
\* HTLC's hashlock or the funding transaction cannot be fetched.
ClaimHTLCBuilds(o, secret) ==
    /\ Sha256(secret) = o.bitcoinHTLC.hashlock
    /\ IsTxid(o.transactions.bitcoinHTLCFunding)

\* What the broadcast of the taker's claim returns: the txid, a rejection whose
\* message names a non-canonical DER signature, or another error.
BroadcastResults(accepted) ==
    IF accepted THEN {"real", "noncanonical", "error"} ELSE {"noncanonical", "error"}

\* The catch block around claimHTLC.
TakerClaimBTCReverseOnError(o, r) ==
    IF r = "noncanonical"
    THEN [o EXCEPT !.transactions.bitcoinHTLCClaim = "sigissue", !.status = "COMPLETED"]
    ELSE o

TakerClaimBTCReverse ==
    /\ order.flow = "reverse"
    /\ LET x == CalldataSecret(evm.calldata) IN
       IF \/ ~TakerClaimBTCReverseGuard(order)
          \/ TxDataLength(evm.calldata) < 74
          \/ Sha256Bytes(HexToBytes(ExtractedSecret(evm.calldata)))
               # HashBytes(order.hashlock)
          \/ ~ClaimHTLCBuilds(order, x)
       THEN Fails("TakerClaimBTCReverse")
       ELSE \E r \in BroadcastResults(ClaimAcceptable(order.bitcoinHTLC,
                                          order.transactions.bitcoinHTLCFunding,
                                          x, "taker")) :
              IF r = "real"
              THEN /\ btc' = [btc EXCEPT !.claimTo = "taker", !.witnessSecret = x]
                   /\ Writes("TakerClaimBTCReverse",
                             [order EXCEPT !.transactions.bitcoinHTLCClaim = "real",
                                           !.status = "COMPLETED"],
                             {"claimTx"})
                   /\ UNCHANGED <<now, evm, built>>
              ELSE IF TakerClaimBTCReverseOnError(order, r) = order
              THEN /\ last' = Ran("TakerClaimBTCReverse", FALSE, {"claimTx"})
                   /\ UNCHANGED <<order, now, btc, evm, built>>
              ELSE /\ Writes("TakerClaimBTCReverse",
                             TakerClaimBTCReverseOnError(order, r), {"claimTx"})
                   /\ UNCHANGED <<now, btc, evm, built>>

Next ==
    \/ Tick
    \/ BtcRefund
    \/ EscrowCancel
    \/ CreateOrder
    \/ FillOrder
    \/ MakerEscrow
    \/ TakerFundHTLC
    \/ MakerClaimBTC
    \/ TakerClaimETH
    \/ CreateOrderReverse
    \/ MakerHTLCReverse
    \/ MakerFundReverse
    \/ TakerEscrowReverse
    \/ MakerClaimETHReverse
    \/ TakerClaimBTCReverse

Spec == Init /\ [][Next]_vars

\* ------------------------------------------------ arbitrary order files
\* The step scripts read whatever record the order file holds.  InitInput
\* starts them on any record of the order schema on which no claim has run
\* yet (or on no order at all), with the chains in the state that record
\* describes: its HTLC as the flow's script builds it at time 0, funded once
\* when the funding reference is a transaction id, and its escrow deployed at
\* time 0 with the order's hashlock.
InputHTLC(flow, hashlock) ==
    IF flow = "forward" THEN NewHTLC("taker", "maker", hashlock, CancellationPeriod)
    ELSE NewHTLC("maker", "maker", hashlock, ReverseLocktimeDelta)

InputOrders ==
    {NoOrder} \cup
    { [flow |-> f, status |-> st, secret |-> s, hashlock |-> h, taker |-> t,
       bitcoinHTLC |-> IF hp THEN InputHTLC(f, h) ELSE NoHTLC,
       monadvmEscrow |-> IF a = "none" THEN NoEscrow
                         ELSE [present |-> TRUE, address |-> a],
       transactions |-> [NoTransactions EXCEPT !.bitcoinHTLCFunding = fr]] :
        f \in {"forward", "reverse"},
        st \in {"CREATED", "FILLED", "FUNDED", "COMPLETED"},
        s \in Secrets, h \in Hashlocks, t \in BOOLEAN, hp \in BOOLEAN,
        a \in {"none"} \cup ComputedAddresses,
        fr \in {"none", "real", "sim"} }

InputBtc(o) ==
    [NoBtc EXCEPT !.fundTxs = IF IsTxid(o.transactions.bitcoinHTLCFunding) THEN 1 ELSE 0]

InputEvm(o) ==
    IF o.monadvmEscrow.present
    THEN [NoEvm EXCEPT !.created = 1,
                       !.kind = IF o.flow = "forward" THEN "src" ELSE "dst",
                       !.state = "locked", !.hashlock = o.hashlock]
    ELSE NoEvm

InitInput ==
    /\ order \in InputOrders
    /\ now = 0
    /\ btc = InputBtc(order)
    /\ evm = InputEvm(order)
    /\ last = NoRun
    /\ built = NoBuilt

SpecInput == InitInput /\ [][Next]_vars

\* ---------------------------------------------- Bitcoin transaction builder
\* HTLCBuilder (btc/lib/htlc-builder.ts) and the stand-alone scripts fund-htlc.ts
\* and claim-htlc-reverse.ts, as functions of their arguments.  Byte strings are
\* sequences of numbers in 0..255.
RECURSIVE Concat(_)
Concat(ss) == IF ss = <<>> THEN <<>> ELSE Head(ss) \o Concat(Tail(ss))

RECURSIVE Sum(_)
Sum(ns) == IF ns = <<>> THEN 0 ELSE Head(ns) + Sum(Tail(ns))

\* A compressed public key: a parity byte and 32 bytes.
PubKeyBytes(k) == <<IF k = "maker" THEN 2 ELSE 3>> \o Repeat(IF k = "maker" THEN 77 ELSE 84, 32)

\* Buffer.writeUInt32LE(n, 0) on a 4-byte buffer.
UInt32LE(n) == [i \in 1..4 |-> (n \div (256 ^ (i - 1))) % 256]

\* bitcoin.script.number.encode(n) for n >= 0: the shortest little-endian
\* encoding whose top bit is clear.
ScriptNumSize(n) ==
    IF n > 2147483647 THEN 5
    ELSE IF n > 8388607 THEN 4
    ELSE IF n > 32767 THEN 3
    ELSE IF n > 127 THEN 2
    ELSE IF n > 0 THEN 1 ELSE 0

ScriptNumberEncode(n) == [i \in 1..ScriptNumSize(n) |-> (n \div (256 ^ (i - 1))) % 256]

\* The chunks handed to bitcoin.script.compile: opcodes and buffers.
Opcode(name) == [op |-> name, data |-> <<>>]

Buffer(bytes) == [op |-> "BUFFER", data |-> bytes]

\* bitcoin.script.compile: an opcode stays; a buffer becomes OP_0, a small-number
\* opcode or OP_1NEGATE when it has such a minimal form, and a data push otherwise.
CompileChunk(c) ==
    IF c.op # "BUFFER" THEN c
    ELSE IF c.data = <<>> THEN Opcode("OP_0")
    ELSE IF Len(c.data) = 1 /\ c.data[1] \in 1..16 THEN [op |-> "OP_N", data |-> c.data]
    ELSE IF c.data = <<129>> THEN Opcode("OP_1NEGATE")
    ELSE [op |-> "PUSH", data |-> c.data]

Compile(chunks) == [i \in DOMAIN chunks |-> CompileChunk(chunks[i])]

\* HTLCBuilder.createHTLCScript.
CreateHTLCScript(c) ==
    Compile(<<Opcode("OP_IF"),
              Opcode("OP_SHA256"),
              Buffer(HashBytes(c.hashlock)),
              Opcode("OP_EQUALVERIFY"),
              Buffer(PubKeyBytes(c.receiverPublicKey)),
              Opcode("OP_CHECKSIG"),
              Opcode("OP_ELSE"),
              Buffer(ScriptNumberEncode(c.locktime)),
              Opcode("OP_CHECKLOCKTIMEVERIFY"),
              Opcode("OP_DROP"),
              Buffer(PubKeyBytes(c.senderPublicKey)),
              Opcode("OP_CHECKSIG"),
              Opcode("OP_ENDIF")>>)

\* createHTLCScript of claim-htlc-reverse.ts.
ClaimReverseCreateHTLCScript(c) ==
    Compile(<<Opcode("OP_IF"),
              Opcode("OP_SHA256"),
              Buffer(HashBytes(c.hashlock)),
              Opcode("OP_EQUALVERIFY"),
              Buffer(PubKeyBytes(c.receiverPublicKey)),
              Opcode("OP_ELSE"),
              Buffer(UInt32LE(c.locktime)),
              Opcode("OP_CHECKLOCKTIMEVERIFY"),
              Opcode("OP_DROP"),
              Buffer(PubKeyBytes(c.senderPublicKey)),
              Opcode("OP_ENDIF"),
              Opcode("OP_CHECKSIG")>>)

\* The serialized script: one byte per opcode, a length byte and the data per push.
OpcodeByte(name) ==
    CASE name = "OP_0" -> 0
      [] name = "OP_1NEGATE" -> 79
      [] name = "OP_IF" -> 99
      [] name = "OP_ELSE" -> 103
      [] name = "OP_ENDIF" -> 104
      [] name = "OP_DROP" -> 117
      [] name = "OP_EQUALVERIFY" -> 136
      [] name = "OP_SHA256" -> 168
      [] name = "OP_CHECKSIG" -> 172
      [] name = "OP_CHECKLOCKTIMEVERIFY" -> 177

ScriptBytes(script) ==
    Concat([i \in DOMAIN script |->
              IF script[i].op = "PUSH" THEN <<Len(script[i].data)>> \o script[i].data
              ELSE IF script[i].op = "OP_N" THEN <<80 + script[i].data[1]>>
              ELSE <<OpcodeByte(script[i].op)>>])

\* createHTLC: the address is derived from the hash of the serialized script, so
\* two scripts pay to the same address exactly when their bytes agree.
CreateHTLC(c) ==
    [redeemScript |-> CreateHTLCScript(c),
     witnessScript |-> ScriptBytes(CreateHTLCScript(c)),
     segwit |-> c.useSegwit]

\* ---- networks and addresses
NetworkSelectors == {"mainnet", "testnet", "testnet4", "regtest"}

\* The address parameters of bitcoin.networks.bitcoin / testnet / regtest.
NetworkParams(name) ==
    CASE name = "bitcoin" -> [bech32 |-> "bc", pubKeyHash |-> 0, scriptHash |-> 5]
      [] name = "testnet" -> [bech32 |-> "tb", pubKeyHash |-> 111, scriptHash |-> 196]
      [] name = "regtest" -> [bech32 |-> "bcrt", pubKeyHash |-> 111, scriptHash |-> 196]

\* getNetwork with every selector mapped to the testnet parameters; C22 does not
\* survive it.
GetNetworkTestnetOnly(networkName) == NetworkParams("testnet")

\* HTLCCreator.getNetwork.
GetNetwork(networkName) ==
    CASE networkName = "mainnet" -> NetworkParams("bitcoin")
      [] networkName \in {"testnet", "testnet4"} -> NetworkParams("testnet")
      [] networkName = "regtest" -> NetworkParams("regtest")

\* bitcoin.address.fromOutputScript on the locking script of createHTLC: bech32
\* with the network's prefix for P2WSH, base58 with its script-hash version for
\* P2SH.
HTLCAddress(c, network) ==
    IF c.useSegwit
    THEN [encoding |-> "bech32", prefix |-> network.bech32, version |-> 0,
          hash |-> CreateHTLC(c).redeemScript]
    ELSE [encoding |-> "base58", prefix |-> "", version |-> network.scriptHash,
          hash |-> CreateHTLC(c).redeemScript]

\* HTLCBuilder.validateHTLCAddress: toOutputScript accepts a base58 address
\* whose version is one of the network's, and a bech32 address with its prefix.
ValidateHTLCAddress(address, network) ==
    IF address.encoding = "base58"
    THEN address.version \in {network.pubKeyHash, network.scriptHash}
    ELSE address.prefix = network.bech32

Parties == {"maker", "taker"}

\* Lock times as block heights and as Unix times.
Locktimes == {500000, 1700000000}

Configs ==
    [senderPublicKey : Parties, receiverPublicKey : Parties, hashlock : Hashlocks,
     locktime : Locktimes, useSegwit : BOOLEAN]

\* ---- fees
\* Fee rates are given in tenths of a satoshi per virtual byte, so that
\* Math.ceil has something to round.
CeilDiv(a, b) == (a + b - 1) \div b

Fee(estimatedSize, feeRateTenths) == CeilDiv(estimatedSize * feeRateTenths, 10)

DustThreshold == 546
ClaimEstimatedSize == 150
LegacyEstimatedSize == 200
ClaimReverseEstimatedSize == 300
FundHtlcFee == 1000

\* ---- witness encoding
\* The hashlock string of an HTLC file: the hexadecimal digest without 0x.
HashlockHex(c) == HexString(HashBytes(c.hashlock))

\* A guard that lets every secret pass; C21 does not survive it.
VerifySecretAlways(secretHex, hashlockHex) == TRUE

\* The guard of createClaimTx and claimHTLC: the hexadecimal SHA-256 of the
\* decoded secret is compared with the hashlock string.
VerifySecret(secretHex, hashlockHex) ==
    HexString(Sha256Bytes(HexToBytes(secretHex))) = hashlockHex

\* A DER signature with its hash-type byte.
Signature == <<48>> \o Repeat(1, 70)

\* The finalizers of createClaimTransaction and createRefundTransaction: one
\* byte for the number of elements, and one length byte before each element.
FinalScriptWitness(stack) ==
    <<Len(stack) % 256>> \o
    Concat([i \in DOMAIN stack |-> <<Len(stack[i]) % 256>> \o stack[i]])

\* Bitcoin's variable-length integer, as the transaction (de)serializer uses it.
VarintEncode(n) ==
    IF n < 253 THEN <<n>>
    ELSE IF n < 65536 THEN <<253, n % 256, n \div 256>>
    ELSE <<254>> \o UInt32LE(n)

VarintAt(bytes, p) ==
    IF bytes[p] < 253 THEN [value |-> bytes[p], next |-> p + 1]
    ELSE IF bytes[p] = 253
         THEN [value |-> bytes[p + 1] + 256 * bytes[p + 2], next |-> p + 3]
         ELSE [value |-> bytes[p + 1] + 256 * bytes[p + 2] + 65536 * bytes[p + 3]
                           + 16777216 * bytes[p + 4],
               next |-> p + 5]

RECURSIVE ReadVector(_, _, _)
ReadVector(bytes, p, n) ==
    IF n = 0 THEN <<>>
    ELSE LET len == VarintAt(bytes, p)
         IN  <<SubSeq(bytes, len.next, len.next + len.value - 1)>>
             \o ReadVector(bytes, len.next + len.value, n - 1)

\* Reading a witness stack back from its serialization (Psbt.extractTransaction
\* on finalScriptWitness, and Transaction.fromHex).
WitnessFromBytes(bytes) ==
    LET count == VarintAt(bytes, 1) IN ReadVector(bytes, count.next, count.value)

\* Transaction.toHex for the witness of an input.
WitnessToBytes(stack) ==
    VarintEncode(Len(stack)) \o
    Concat([i \in DOMAIN stack |-> VarintEncode(Len(stack[i])) \o stack[i]])

\* ---- transactions
\* A 32-bit sequence number, kept as its two 16-bit halves.
Word32(hi, lo) == [hi |-> hi, lo |-> lo]

Below32(a, b) == a.hi < b.hi \/ (a.hi = b.hi /\ a.lo < b.lo)

\* A built transaction: the values of its inputs and outputs, input 0's
\* sequence (0xffffffff unless the builder sets it), witness and script-sig,
\* and the lock time.
NewTx(inputs, outputs) ==
    [inputs |-> inputs, outputs |-> outputs, sequence |-> Word32(65535, 65535),
     locktime |-> 0, witness |-> <<>>, scriptSig |-> <<>>]

\* What a builder call returns: the reported fee and the transaction, or the
\* error it threw; signed tells whether a signature was made on the way.
Built(tx, fee) ==
    [error |-> "none", signed |-> tx.inputs # <<>>, fee |-> fee, tx |-> tx]

Thrown(error, signed) ==
    [error |-> error, signed |-> signed, fee |-> 0, tx |-> NewTx(<<>>, <<>>)]

\* Psbt.extractTransaction, called after every input has been signed, refuses
\* a transaction that spends more than its inputs.
ExtractTransaction(tx, fee) ==
    IF Sum(tx.inputs) < Sum(tx.outputs)
    THEN [Built(tx, fee) EXCEPT !.error = "OutputsExceedInputs"]
    ELSE Built(tx, fee)

\* HTLCBuilder.createFundingTransaction: every UTXO becomes an input.
FundingEstimatedSize(inputCount) == inputCount * 148 + 2 * 34 + 10

WithChange(amount, change) ==
    IF change > DustThreshold THEN <<amount, change>> ELSE <<amount>>

CreateFundingTransaction(utxos, amount, feeRateTenths) ==
    LET fee == Fee(FundingEstimatedSize(Len(utxos)), feeRateTenths)
        change == Sum(utxos) - amount - fee
    IN  ExtractTransaction(NewTx(utxos, WithChange(amount, change)), fee)

\* fund-htlc.ts main: UTXOs are added until they cover amount + fee.
RECURSIVE SelectInputs(_, _, _)
SelectInputs(utxos, inputValue, needed) ==
    IF utxos = <<>> \/ inputValue >= needed THEN <<>>
    ELSE <<Head(utxos)>> \o SelectInputs(Tail(utxos), inputValue + Head(utxos), needed)

FundHtlc(utxos, amount) ==
    IF utxos = <<>> THEN Thrown("NoUTXOs", FALSE)
    ELSE IF Sum(utxos) < amount + FundHtlcFee THEN Thrown("InsufficientFunds", FALSE)
    ELSE LET inputs == SelectInputs(utxos, 0, amount + FundHtlcFee)
             change == Sum(inputs) - amount - FundHtlcFee
         IN  ExtractTransaction(NewTx(inputs, WithChange(amount, change)), FundHtlcFee)

\* HTLCBuilder.createClaimTransaction.  Psbt.addOutput rejects a negative value
\* (it is not a satoshi amount) and accepts zero.
\* The stack with the secret and the signature exchanged; C18 does not survive it.
ClaimWitnessStackSecretFirst(c, secret) ==
    <<secret, Signature, <<1>>, ScriptBytes(CreateHTLCScript(c))>>

ClaimWitnessStack(c, secret) ==
    <<Signature, secret, <<1>>, ScriptBytes(CreateHTLCScript(c))>>

SpendEstimatedSize(c) == IF c.useSegwit THEN ClaimEstimatedSize ELSE LegacyEstimatedSize

CreateClaimTransaction(c, htlcAmount, secret, feeRateTenths) ==
    LET fee == Fee(SpendEstimatedSize(c), feeRateTenths)
        outputAmount == htlcAmount - fee
    IN  IF ~c.useSegwit THEN Thrown("P2SHUnsupported", FALSE)
        ELSE IF outputAmount < 0 THEN Thrown("InvalidOutputValue", FALSE)
        ELSE Built([NewTx(<<htlcAmount>>, <<outputAmount>>) EXCEPT
                      !.witness = WitnessFromBytes(
                                    FinalScriptWitness(ClaimWitnessStack(c, secret)))],
                   fee)

\* createClaimTx of create-htlc.ts (the "claim" command): it verifies the secret
\* and hands the builder the amount 100000, whatever the HTLC output holds.
ClaimTxAmount == 100000

CreateClaimTx(c, secret, feeRateTenths) ==
    IF ~VerifySecret(HexString(secret), HashlockHex(c))
    THEN Thrown("SecretMismatch", FALSE)
    ELSE CreateClaimTransaction(c, ClaimTxAmount, secret, feeRateTenths)

\* The refund input left at the final sequence; C20 does not survive it.
RefundInputFinal(c) == [sequence |-> Word32(65535, 65535), locktime |-> c.locktime]

\* HTLCBuilder.createRefundTransaction.  The input is added with sequence 0xfffffffe and the lock time is set from the
\* configuration.
RefundInput(c) == [sequence |-> Word32(65535, 65534), locktime |-> c.locktime]

RefundWitnessStack(c) == <<Signature, <<0>>, ScriptBytes(CreateHTLCScript(c))>>

CreateRefundTransaction(c, htlcAmount, feeRateTenths) ==
    LET fee == Fee(SpendEstimatedSize(c), feeRateTenths)
        outputAmount == htlcAmount - fee
    IN  IF ~c.useSegwit THEN Thrown("P2SHUnsupported", FALSE)
        ELSE IF outputAmount < 0 THEN Thrown("InvalidOutputValue", FALSE)
        ELSE Built([NewTx(<<htlcAmount>>, <<outputAmount>>) EXCEPT
                      !.sequence = RefundInput(c).sequence,
                      !.locktime = RefundInput(c).locktime,
                      !.witness = WitnessFromBytes(
                                    FinalScriptWitness(RefundWitnessStack(c)))],
                   fee)

\* claimHTLC of claim-htlc-reverse.ts: the script comes from the HTLC file when
\* the file has one, and is rebuilt from the configuration otherwise.
ClaimHTLCScript(c, fromFile) ==
    IF fromFile THEN CreateHTLCScript(c) ELSE ClaimReverseCreateHTLCScript(c)

ClaimHTLC(c, fromFile, fundingAmount, secret, feeRateTenths) ==
    LET fee == Fee(ClaimReverseEstimatedSize, feeRateTenths)
        outputAmount == fundingAmount - fee
    IN  IF ~VerifySecret(HexString(secret), HashlockHex(c))
        THEN Thrown("SecretMismatch", FALSE)
        ELSE IF outputAmount <= 0 THEN Thrown("InsufficientFunds", FALSE)
        ELSE Built([NewTx(<<fundingAmount>>, <<outputAmount>>) EXCEPT
                      !.witness = <<Signature, secret, <<1>>,
                                    ScriptBytes(ClaimHTLCScript(c, fromFile))>>],
                   fee)

\* Transaction.toHex followed by Transaction.fromHex.
FromHex(tx) == [tx EXCEPT !.witness = WitnessFromBytes(WitnessToBytes(tx.witness))]

\* HTLCBuilder.extractSecretFromTransaction: element 1 (counting from 0) of the
\* witness when there is a witness, else of the decompiled script-sig when that
\* has more than one element, else null.  Indexing past the end of a
\* one-element witness yields undefined.
NoSecret(kind) == [kind |-> kind, value |-> <<>>]

\* The extractor reading element 0 instead; C19 does not survive it.
ExtractFirstElement(hex) ==
    LET tx == FromHex(hex)
    IN  IF Len(tx.witness) > 0 THEN [kind |-> "buffer", value |-> tx.witness[1]]
        ELSE IF Len(tx.scriptSig) > 1 THEN [kind |-> "buffer", value |-> tx.scriptSig[1]]
        ELSE NoSecret("null")

ExtractSecretFromTransaction(hex) ==
    LET tx == FromHex(hex)
    IN  IF Len(tx.witness) > 0
        THEN IF Len(tx.witness) >= 2 THEN [kind |-> "buffer", value |-> tx.witness[2]]
             ELSE NoSecret("undefined")
        ELSE IF Len(tx.scriptSig) > 1 THEN [kind |-> "buffer", value |-> tx.scriptSig[2]]
        ELSE NoSecret("null")

\* The witness parsing of the forward taker claim: it throws unless input 0 has
\* a witness of at least two elements.
ParseClaimWitness(hex) ==
    LET tx == FromHex(hex)
    IN  IF Len(tx.witness) > 0
        THEN IF Len(tx.witness) >= 2 THEN [kind |-> "buffer", value |-> tx.witness[2]]
             ELSE NoSecret("throw")
        ELSE NoSecret("throw")

\* ---- the builder as a state machine
MaxUtxos == 2

UtxoValues == {1000, 5000}

UtxoLists == UNION {[1..n -> UtxoValues] : n \in 0..MaxUtxos}

FundingAmounts == {1000, 4500, 7000}

HtlcAmounts == {150, 1000, 3000}

FeeRatesTenths == {10, 11, 100}

\* Values of the HTLC output that the claim command is pointed at.
FundedAmounts == HtlcAmounts \cup {ClaimTxAmount}

\* Witness stacks and script-sigs of transactions that are not HTLC claims.
StackItems == {Signature, SecretBytes(1)}

InputStacks == UNION {[1..n -> StackItems] : n \in 0..2}

\* The state after a builder call: the call, the transaction the secret was
\* extracted from (for the extractor), the arguments, and the results.
Called(op, from, secret, amount, feeRateTenths, out, extracted) ==
    [op |-> op, from |-> from, config |-> built.config, secret |-> secret,
     amount |-> amount, feeRateTenths |-> feeRateTenths, out |-> out,
     extracted |-> extracted]

\* Every command constructs its builder (built.op = "new") and makes one call on it.
InitBuilder ==
    /\ order = NoOrder
    /\ now = 0
    /\ btc = NoBtc
    /\ evm = NoEvm
    /\ last = NoRun
    /\ \E c \in Configs :
         built = [op |-> "new", from |-> "none", config |-> c, secret |-> <<>>,
                  amount |-> 0, feeRateTenths |-> 0, out |-> Thrown("none", FALSE),
                  extracted |-> NoSecret("none")]

CallCreateFundingTransaction ==
    /\ built.op = "new"
    /\ \E utxos \in UtxoLists, amount \in FundingAmounts, rate \in FeeRatesTenths :
           built' = Called("createFundingTransaction", "none", <<>>, amount, rate,
                              CreateFundingTransaction(utxos, amount, rate),
                              NoSecret("none"))
    /\ UNCHANGED <<order, now, btc, evm, last>>

CallFundHtlc ==
    /\ built.op = "new"
    /\ \E utxos \in UtxoLists, amount \in FundingAmounts :
           built' = Called("fundHtlc", "none", <<>>, amount, 0,
                              FundHtlc(utxos, amount), NoSecret("none"))
    /\ UNCHANGED <<order, now, btc, evm, last>>

CallCreateClaimTransaction ==
    /\ built.op = "new"
    /\ \E amount \in HtlcAmounts, s \in Secrets, rate \in FeeRatesTenths :
           built' = Called("createClaimTransaction", "none", SecretBytes(s), amount, rate,
                              CreateClaimTransaction(built.config, amount, SecretBytes(s), rate),
                              NoSecret("none"))
    /\ UNCHANGED <<order, now, btc, evm, last>>

\* amount is the value of the funded HTLC output; the command never reads it.
CallCreateClaimTx ==
    /\ built.op = "new"
    /\ \E amount \in FundedAmounts, s \in Secrets, rate \in FeeRatesTenths :
           built' = Called("createClaimTx", "none", SecretBytes(s), amount, rate,
                           CreateClaimTx(built.config, SecretBytes(s), rate),
                           NoSecret("none"))
    /\ UNCHANGED <<order, now, btc, evm, last>>

\* An HTLC address created for one network selector and validated against another.
CallValidateHTLCAddress ==
    /\ built.op = "new"
    /\ \E n \in NetworkSelectors, against \in NetworkSelectors :
           built' = [op |-> "validateHTLCAddress", config |-> built.config,
                     network |-> n, against |-> against,
                     address |-> HTLCAddress(built.config, GetNetwork(n)),
                     valid |-> ValidateHTLCAddress(
                                   HTLCAddress(built.config, GetNetwork(n)),
                                   GetNetwork(against))]
    /\ UNCHANGED <<order, now, btc, evm, last>>

CallCreateRefundTransaction ==
    /\ built.op = "new"
    /\ \E amount \in HtlcAmounts, rate \in FeeRatesTenths :
           built' = Called("createRefundTransaction", "none", <<>>, amount, rate,
                              CreateRefundTransaction(built.config, amount, rate),
                              NoSecret("none"))
    /\ UNCHANGED <<order, now, btc, evm, last>>

CallClaimHTLC ==
    /\ built.op = "new"
    /\ \E fromFile \in BOOLEAN, amount \in HtlcAmounts, s \in Secrets,
          rate \in FeeRatesTenths :
           built' = Called("claimHTLC", "none", SecretBytes(s), amount, rate,
                              ClaimHTLC(built.config, fromFile, amount, SecretBytes(s), rate),
                              NoSecret("none"))
    /\ UNCHANGED <<order, now, btc, evm, last>>

\* The extractor applied to the transaction built last.
CallExtractSecretFromBuilt ==
    /\ built.op \in {"createClaimTransaction", "createRefundTransaction", "claimHTLC"}
    /\ built.out.error = "none"
    /\ built' = [built EXCEPT !.op = "extractSecretFromTransaction",
                              !.from = built.op,
                              !.extracted = ExtractSecretFromTransaction(built.out.tx)]
    /\ UNCHANGED <<order, now, btc, evm, last>>

\* The extractor applied to some other transaction.
CallExtractSecretFromInput ==
    /\ built.op = "new"
    /\ \E witness \in InputStacks, scriptSig \in InputStacks :
           LET tx == [NewTx(<<1000>>, <<1000>>) EXCEPT !.witness = witness,
                                                       !.scriptSig = scriptSig]
           IN  built' = Called("extractSecretFromTransaction", "input", <<>>, 0, 0,
                                  [Thrown("none", FALSE) EXCEPT !.tx = tx],
                                  ExtractSecretFromTransaction(tx))
    /\ UNCHANGED <<order, now, btc, evm, last>>

CallParseClaimWitness ==
    /\ built.op = "new"
    /\ \E witness \in InputStacks :
           LET tx == [NewTx(<<1000>>, <<1000>>) EXCEPT !.witness = witness]
           IN  built' = Called("parseClaimWitness", "input", <<>>, 0, 0,
                                  [Thrown("none", FALSE) EXCEPT !.tx = tx],
                                  ParseClaimWitness(tx))
    /\ UNCHANGED <<order, now, btc, evm, last>>

NextBuilder ==
    \/ CallCreateFundingTransaction
    \/ CallFundHtlc
    \/ CallCreateClaimTransaction
    \/ CallCreateClaimTx
    \/ CallCreateRefundTransaction
    \/ CallClaimHTLC
    \/ CallExtractSecretFromBuilt
    \/ CallExtractSecretFromInput
    \/ CallParseClaimWitness
    \/ CallValidateHTLCAddress

SpecBuilder == InitBuilder /\ [][NextBuilder]_vars

\* ------------------------------------------------------ the order file
\* A step persists the order with fs.writeFileSync(orderPath,
\* JSON.stringify(order, null, 2)): the file is opened with flag 'w', which
\* truncates it, written in one or more writeSync calls, and closed.  The
\* process can be killed between any two of these.
OrderKeys ==
    <<"flow", "status", "secret", "hashlock", "taker", "bitcoinHTLC",
      "monadvmEscrow", "transactions">>

\* JSON.stringify(order, null, 2): an opening brace, the members in insertion
\* order, a closing brace.
Stringify(o) ==
    <<<<"{">>>> \o [i \in 1..Len(OrderKeys) |-> <<OrderKeys[i], o[OrderKeys[i]]>>]
    \o <<<<"}">>>>

\* JSON.parse throws a SyntaxError on anything but a complete object.
Parses(text) ==
    /\ Len(text) = Len(OrderKeys) + 2
    /\ text[1][1] = "{"
    /\ text[Len(text)][1] = "}"

JsonParse(text) ==
    [flow |-> text[2][2], status |-> text[3][2], secret |-> text[4][2],
     hashlock |-> text[5][2], taker |-> text[6][2], bitcoinHTLC |-> text[7][2],
     monadvmEscrow |-> text[8][2], transactions |-> text[9][2]]

\* The step has read the order file and holds the record in memory.
InitPersist ==
    /\ order \in InputOrders
    /\ now = 0
    /\ btc = InputBtc(order)
    /\ evm = InputEvm(order)
    /\ last = NoRun
    /\ built = [op |-> "persist", pc |-> "read", previous |-> order,
                file |-> Stringify(order), data |-> Stringify(order)]

\* writeFileSync opens the file for writing: the file is empty from here on.
OpenSync(o) ==
    /\ order' = o
    /\ built' = [built EXCEPT !.pc = "writing", !.file = <<>>, !.data = Stringify(o)]
    /\ UNCHANGED <<now, btc, evm, last>>

\* maker-claim-btc.ts: the updated order is saved.
SaveMakerClaimBTC ==
    /\ built.op = "persist"
    /\ built.pc = "read"
    /\ order.flow = "forward"
    /\ MakerClaimBTCGuard(order)
    /\ \E r \in ClaimTxResults(TRUE) :
           OpenSync([order EXCEPT !.status = "COMPLETED",
                                  !.transactions.bitcoinHTLCClaim = r])

\* taker-escrow-reverse.ts: the updated order is saved.
SaveTakerEscrowReverse ==
    /\ built.op = "persist"
    /\ built.pc = "read"
    /\ order.flow = "reverse"
    /\ TakerEscrowReverseGuard(order)
    /\ \E a \in ComputedAddresses :
           OpenSync([order EXCEPT !.monadvmEscrow = [present |-> TRUE, address |-> a],
                                  !.taker = TRUE,
                                  !.status = "FILLED",
                                  !.transactions.monadvmEscrowCreation = "tx"])

\* One writeSync call of writeFileSync's loop: it appends some of the rest.
WriteSync ==
    /\ built.op = "persist"
    /\ built.pc = "writing"
    /\ Len(built.file) < Len(built.data)
    /\ \E n \in 1..(Len(built.data) - Len(built.file)) :
           built' = [built EXCEPT !.file = SubSeq(built.data, 1, Len(built.file) + n)]
    /\ UNCHANGED <<order, now, btc, evm, last>>

CloseSync ==
    /\ built.op = "persist"
    /\ built.pc = "writing"
    /\ Len(built.file) = Len(built.data)
    /\ built' = [built EXCEPT !.pc = "closed"]
    /\ UNCHANGED <<order, now, btc, evm, last>>

\* The process is killed; the file stays as it is.
Crash ==
    /\ built.op = "persist"
    /\ built.pc \in {"read", "writing", "closed"}
    /\ built' = [built EXCEPT !.pc = "crashed"]
    /\ UNCHANGED <<order, now, btc, evm, last>>

NextPersist ==
    \/ SaveMakerClaimBTC
    \/ SaveTakerEscrowReverse
    \/ WriteSync
    \/ CloseSync
    \/ Crash

SpecPersist == InitPersist /\ [][NextPersist]_vars

\* ---------------------------------------------------- funding over HTTP
\* fund-htlc.ts main and createFundingTx of create-htlc.ts as processes that
\* talk to a block explorer.  unspent is what the funding address holds;
\* requests lists the HTTP requests made so far; exit is the exit code.
FundScripts == {"fund-htlc", "create-htlc"}

CreateFundingFeeRateTenths == 100

Request(request, transport, ok) ==
    [request |-> request, transport |-> transport, ok |-> ok]

InitFund ==
    /\ order = NoOrder
    /\ now = 0
    /\ btc = NoBtc
    /\ evm = NoEvm
    /\ last = NoRun
    /\ \E script \in FundScripts, unspent \in UtxoLists, amount \in FundingAmounts :
           built = [op |-> "fund", script |-> script,
                    pc |-> IF script = "fund-htlc" THEN "getUTXOs" ELSE "createFundingTx",
                    unspent |-> unspent, amount |-> amount, utxos |-> <<>>,
                    requests |-> <<>>, exit |-> "running", error |-> "none",
                    broadcastStatus |-> "none"]

\* A request that the explorer answers or not; the UTXO endpoint's answer is
\* refused by the callers when it is an empty list.
Sent(b, request, transport, ok) ==
    [b EXCEPT !.requests = Append(b.requests, Request(request, transport, ok))]

\* getUTXOs gives up after the first failed attempt; C26 does not survive it.
GetUTXOsCatchGiveUp(b) == [b EXCEPT !.pc = "main", !.utxos = <<>>]

\* getUTXOs, catch block: the list is fetched again with curl.
GetUTXOsCatch(b) == [b EXCEPT !.pc = "getUTXOsWithCurl"]

\* getUTXOs, try block: fetch with a 10 second abort timer.
GetUTXOs ==
    /\ built.op = "fund"
    /\ built.pc = "getUTXOs"
    /\ \E answered \in BOOLEAN :
         LET ok == answered /\ built.unspent # <<>>
             b == Sent(built, "utxo", "fetch", ok)
         IN  built' = IF ok THEN [b EXCEPT !.pc = "main", !.utxos = built.unspent]
                      ELSE GetUTXOsCatch(b)
    /\ UNCHANGED <<order, now, btc, evm, last>>

\* getUTXOsWithCurl; when it rejects, getUTXOs returns the empty list.
GetUTXOsWithCurl ==
    /\ built.op = "fund"
    /\ built.pc = "getUTXOsWithCurl"
    /\ \E answered \in BOOLEAN :
         LET ok == answered /\ built.unspent # <<>>
             b == Sent(built, "utxo", "curl", ok)
         IN  built' = [b EXCEPT !.pc = "main",
                                !.utxos = IF ok THEN built.unspent ELSE <<>>]
    /\ UNCHANGED <<order, now, btc, evm, last>>

\* fund-htlc.ts main from the empty-list check to the signed transaction; every
\* throw ends in process.exit(1).
FundHtlcMain ==
    /\ built.op = "fund"
    /\ built.pc = "main"
    /\ LET out == FundHtlc(built.utxos, built.amount)
       IN  built' = IF out.error = "none" THEN [built EXCEPT !.pc = "broadcast"]
                    ELSE [built EXCEPT !.pc = "exit", !.exit = "1", !.error = out.error]
    /\ UNCHANGED <<order, now, btc, evm, last>>

\* broadcastTransaction of fund-htlc.ts: one POST with fetch; it rethrows.
FundHtlcBroadcast ==
    /\ built.op = "fund"
    /\ built.script = "fund-htlc"
    /\ built.pc = "broadcast"
    /\ \E ok \in BOOLEAN :
         LET b == Sent(built, "broadcast", "fetch", ok)
         IN  built' = IF ok
                      THEN [b EXCEPT !.pc = "exit", !.exit = "0",
                                     !.broadcastStatus = "BROADCASTED"]
                      ELSE [b EXCEPT !.pc = "exit", !.exit = "1",
                                     !.error = "BroadcastFailed"]
    /\ UNCHANGED <<order, now, btc, evm, last>>

\* createFundingTx of create-htlc.ts up to the signed transaction; the UTXOs
\* come from a file.
CreateFundingTx ==
    /\ built.op = "fund"
    /\ built.pc = "createFundingTx"
    /\ LET out == CreateFundingTransaction(built.unspent, built.amount,
                                           CreateFundingFeeRateTenths)
       IN  built' = IF out.error = "none"
                    THEN [built EXCEPT !.pc = "broadcast", !.utxos = built.unspent]
                    ELSE [built EXCEPT !.pc = "exit", !.exit = "1", !.error = out.error]
    /\ UNCHANGED <<order, now, btc, evm, last>>

\* broadcastTransaction of create-htlc.ts: one POST with curl; a failure makes
\* the result LOCAL_ONLY and the command still succeeds.
CreateHtlcBroadcast ==
    /\ built.op = "fund"
    /\ built.script = "create-htlc"
    /\ built.pc = "broadcast"
    /\ \E ok \in BOOLEAN :
         LET b == Sent(built, "broadcast", "curl", ok)
         IN  built' = [b EXCEPT !.pc = "exit", !.exit = "0",
                                !.broadcastStatus = IF ok THEN "BROADCASTED"
                                                    ELSE "LOCAL_ONLY"]
    /\ UNCHANGED <<order, now, btc, evm, last>>

NextFund ==
    \/ GetUTXOs
    \/ GetUTXOsWithCurl
    \/ FundHtlcMain
    \/ FundHtlcBroadcast
    \/ CreateFundingTx
    \/ CreateHtlcBroadcast

SpecFund == InitFund /\ [][NextFund]_vars

\* Every request is answered or fails after finite time: fetch is aborted
\* after 10 seconds and the curl process exits.
SpecFundFair == SpecFund /\ WF_vars(NextFund)

\* ------------------------------------------------------- escrow creation
\* maker-escrow.ts and taker-escrow-reverse.ts from the packing of the
\* timelocks to the saved escrow address.  Numbers that need more than 31 bits
\* are sequences of 16-bit limbs, least significant first; the timelocks word
\* has 16 limbs (uint256).
LimbBits == 16
LimbBase == 65536
WordLimbs == 16

\* A JavaScript number below 2^48 as three limbs.
Num(lo, mid, hi) == <<lo, mid, hi>>

ToNum(n) == Num(n % LimbBase, n \div LimbBase, 0)

\* BigInt(x) widened to the word.
BigInt(n) == n \o [i \in 1..(WordLimbs - Len(n)) |-> 0]

\* x * 2 on a number.
RECURSIVE Doubled(_, _)
Doubled(n, carry) ==
    IF n = <<>> THEN <<>>
    ELSE <<(2 * Head(n) + carry) % LimbBase>>
         \o Doubled(Tail(n), (2 * Head(n) + carry) \div LimbBase)

Times2(n) == Doubled(n, 0)

\* a <= b on numbers of the same length.
RECURSIVE Leq(_, _)
Leq(a, b) ==
    IF a = <<>> THEN TRUE
    ELSE IF a[Len(a)] # b[Len(b)] THEN a[Len(a)] < b[Len(b)]
    ELSE Leq(SubSeq(a, 1, Len(a) - 1), SubSeq(b, 1, Len(b) - 1))

RECURSIVE BitOr(_, _, _)
BitOr(x, y, bits) ==
    IF bits = 0 THEN 0
    ELSE (IF x % 2 = 1 \/ y % 2 = 1 THEN 1 ELSE 0)
         + 2 * BitOr(x \div 2, y \div 2, bits - 1)

\* a | b on words.
Or(a, b) == [i \in 1..WordLimbs |-> BitOr(a[i], b[i], LimbBits)]

\* a << (16 * limbs) on words; every operand of the scripts stays below 2^256.
ShiftLeft(a, limbs) ==
    [i \in 1..WordLimbs |-> IF i <= limbs THEN 0 ELSE a[i - limbs]]

\* (BigInt(now) << 224n) | (BigInt(dstCancellation) << 64n) |
\* (BigInt(dstPublicWithdrawal) << 32n) | BigInt(dstWithdrawal)
PackTimelocks(deployedAt, dstCancellation, dstPublicWithdrawal, dstWithdrawal) ==
    Or(Or(Or(ShiftLeft(BigInt(deployedAt), 14), ShiftLeft(BigInt(dstCancellation), 4)),
          ShiftLeft(BigInt(dstPublicWithdrawal), 2)),
       BigInt(dstWithdrawal))

\* The 32-bit field of a stage: uint32(timelocks >> (32 * stage)).
TimelockField(timelocks, stage) == SubSeq(timelocks, 2 * stage + 1, 2 * stage + 2)

\* TimelocksLib.setDeployedAt: the top 32 bits are replaced.
SetDeployedAt(timelocks, timestamp) ==
    [i \in 1..WordLimbs |->
        IF i = WordLimbs - 1 THEN timestamp % LimbBase
        ELSE IF i = WordLimbs THEN timestamp \div LimbBase
        ELSE timelocks[i]]

\* Create2.computeAddress(ImmutablesLib.hashMem(immutables with the deployment
\* time set), bytecode hash, factory): one address per salt and kind.
AddressOfEscrow(kind, timelocks, timestamp) ==
    [kind |-> kind, salt |-> SetDeployedAt(timelocks, timestamp)]

EscrowScripts == {"maker-escrow", "taker-escrow-reverse"}

EscrowKind(script) == IF script = "maker-escrow" THEN "src" ELSE "dst"

\* order.timelock of the order file the step is run on.
WithdrawalPeriods == {Num(0, 0, 0), Num(1800, 0, 0), Num(3600, 0, 0), Num(0, 32768, 0)}

CancellationPeriods == {Num(1800, 0, 0), Num(3600, 0, 0)}

NoAddress == [kind |-> "none", salt |-> <<>>]

\* ---- immutables
\* BigInt(address): the 160-bit number of a hexadecimal address, whatever the
\* case of its digits.
AddressToUint(a) ==
    CASE a \in {"0xab", "0xAB"} -> 171
      [] a \in {"0xcd", "0xCD"} -> 205

\* signer.address of ethers: the checksummed spelling.
SignerAddress(party) == IF party = "maker" THEN "0xAB" ELSE "0xCD"

\* The parts of the order file the immutables are built from; the maker's
\* address is compared with the signer's in lower case, so either spelling
\* passes.
Swaps ==
    { [makerAddress |-> m, takerAddress |-> SignerAddress("taker"),
       provides |-> 1000, wants |-> 2000, hashlock |-> h] :
        m \in {"0xab", "0xAB"}, h \in Hashlocks }

NoImmutables ==
    [hashlock |-> 0, maker |-> 0, taker |-> 0, token |-> 0, amount |-> 0,
     safetyDeposit |-> "none", timelocks |-> <<>>]

\* immutables of maker-escrow.ts (maker from the signer, amount the maker
\* provides) and of taker-escrow-reverse.ts (taker from the signer, amount the
\* maker wants).
CreationImmutables(b) ==
    [hashlock |-> b.swap.hashlock,
     maker |-> IF b.script = "maker-escrow"
               THEN AddressToUint(SignerAddress("maker"))
               ELSE AddressToUint(b.swap.makerAddress),
     taker |-> IF b.script = "maker-escrow"
               THEN AddressToUint(b.swap.takerAddress)
               ELSE AddressToUint(SignerAddress("taker")),
     token |-> 0,
     amount |-> IF b.script = "maker-escrow" THEN b.swap.provides ELSE b.swap.wants,
     safetyDeposit |-> "0.001",
     timelocks |-> b.timelocks]

\* _deployEscrow: the immutables that are hashed into the salt.
DeployedImmutables(b, timestamp) ==
    [CreationImmutables(b) EXCEPT !.timelocks = SetDeployedAt(@, timestamp)]

\* Immutables rebuilt with the clock of the claim script in place of the
\* creation block's timestamp; C31 does not survive it.
ClaimImmutablesAtClock(b) ==
    [DeployedImmutables(b, now) EXCEPT
       !.maker = AddressToUint(b.swap.makerAddress),
       !.taker = AddressToUint(b.swap.takerAddress)]

\* immutables of the taker's ETH claim (forward) and of
\* maker-claim-eth-reverse.ts: everything from the order, the deployment time
\* from the block of the creation transaction.
ClaimImmutables(b) ==
    [hashlock |-> b.swap.hashlock,
     maker |-> AddressToUint(b.swap.makerAddress),
     taker |-> AddressToUint(b.swap.takerAddress),
     token |-> 0,
     amount |-> IF b.script = "maker-escrow" THEN b.swap.provides ELSE b.swap.wants,
     safetyDeposit |-> "0.001",
     timelocks |-> PackTimelocks(ToNum(b.escrowCreationTime), b.cancellationPeriod,
                                 Times2(b.withdrawalPeriod), b.withdrawalPeriod)]

InitEscrow ==
    /\ order = NoOrder
    /\ now = 0
    /\ btc = NoBtc
    /\ evm = NoEvm
    /\ last = NoRun
    /\ \E script \in EscrowScripts, w \in WithdrawalPeriods, c \in CancellationPeriods,
          swap \in Swaps :
           built = [op |-> "escrow", script |-> script, pc |-> "start",
                    withdrawalPeriod |-> w, cancellationPeriod |-> c,
                    dstWithdrawal |-> w, dstPublicWithdrawal |-> w, dstCancellation |-> c,
                    timelocks |-> BigInt(<<>>), deployed |-> NoAddress,
                    address |-> NoAddress, swap |-> swap, escrowCreationTime |-> 0,
                    immutables |-> NoImmutables, rebuilt |-> NoImmutables]

\* main: the periods are read from the order and packed with the script's clock.
PackOrderTimelocks ==
    /\ built.op = "escrow"
    /\ built.pc = "start"
    /\ LET dstWithdrawal == built.withdrawalPeriod
           dstPublicWithdrawal == Times2(built.withdrawalPeriod)
           dstCancellation == built.cancellationPeriod
       IN  built' = [built EXCEPT
                       !.pc = "packed",
                       !.dstWithdrawal = dstWithdrawal,
                       !.dstPublicWithdrawal = dstPublicWithdrawal,
                       !.dstCancellation = dstCancellation,
                       !.timelocks = PackTimelocks(ToNum(now), dstCancellation,
                                                   dstPublicWithdrawal, dstWithdrawal)]
    /\ UNCHANGED <<order, now, btc, evm, last>>

\* createSrcEscrow / createDstEscrow mined and confirmed: _deployEscrow sets
\* the deployment time to the block's timestamp.
CreateEscrow ==
    /\ built.op = "escrow"
    /\ built.pc = "packed"
    /\ built' = [built EXCEPT
                   !.pc = "confirmed",
                   !.escrowCreationTime = now,
                   !.immutables = DeployedImmutables(built, now),
                   !.deployed = AddressOfEscrow(EscrowKind(built.script),
                                                built.timelocks, now)]
    /\ UNCHANGED <<order, now, btc, evm, last>>

\* addressOfEscrowSrc / addressOfEscrowDst called after the receipt, evaluated
\* with the timestamp of the block the call runs on; the result is saved in
\* order.monadvmEscrow.address.
SaveEscrowAddress ==
    /\ built.op = "escrow"
    /\ built.pc = "confirmed"
    /\ built' = [built EXCEPT
                   !.pc = "saved",
                   !.address = AddressOfEscrow(EscrowKind(built.script),
                                               built.timelocks, now)]
    /\ UNCHANGED <<order, now, btc, evm, last>>

\* The claim script of the flow rebuilds the immutables for withdraw.
RebuildImmutables ==
    /\ built.op = "escrow"
    /\ built.pc = "saved"
    /\ built' = [built EXCEPT !.pc = "rebuilt", !.rebuilt = ClaimImmutables(built)]
    /\ UNCHANGED <<order, now, btc, evm, last>>

NextEscrow ==
    \/ Tick
    \/ PackOrderTimelocks
    \/ CreateEscrow
    \/ SaveEscrowAddress
    \/ RebuildImmutables

SpecEscrow == InitEscrow /\ [][NextEscrow]_vars

\* ------------------------------------------------- the btc/output directory
\* Several orders share btc/output.  create-htlc.ts writes one result file
\* htlc_<Date.now()>_<network>.json per HTLC; the steps find "their" file by
\* listing the directory.  files lists the result files by modification
\* time, oldest first, each named by the order it was created for.
MaxOrders == 2

OrderIds == 1..MaxOrders

\* htlcConfig of the fill step (forward) and of maker-htlc-reverse.ts.
OrderHTLCConfig(id, flow) ==
    [senderPublicKey |-> IF flow = "forward" THEN "taker" ELSE "maker",
     receiverPublicKey |-> "maker",
     hashlock |-> Sha256(id),
     locktime |-> 500000,
     useSegwit |-> TRUE]

\* The result file create-htlc.ts saves for an order.
HTLCResultFile(id, flow) ==
    [address |-> HTLCAddress(OrderHTLCConfig(id, flow), GetNetwork("testnet4")),
     witnessScript |-> CreateHTLC(OrderHTLCConfig(id, flow)).witnessScript]

NoHTLCFile == [address |-> NoAddress, witnessScript |-> <<>>]

InitOutput ==
    /\ order = NoOrder
    /\ now = 0
    /\ btc = NoBtc
    /\ evm = NoEvm
    /\ last = NoRun
    /\ \E flows \in [OrderIds -> {"forward", "reverse"}] :
           built = [op |-> "output", flows |-> flows,
                    pc |-> [id \in OrderIds |-> "created"],
                    files |-> <<>>,
                    bitcoinHTLC |-> [id \in OrderIds |-> NoHTLCFile],
                    claimFile |-> [id \in OrderIds |-> NoHTLCFile]]

FileOf(b, id) == HTLCResultFile(id, b.flows[id])

\* execSync of "create-htlc.ts create": saveHTLCToFile adds the newest file.
RunCreateHTLC(id) ==
    /\ built.op = "output"
    /\ built.pc[id] = "created"
    /\ built' = [built EXCEPT !.pc[id] = "htlcCreated", !.files = Append(@, id)]
    /\ UNCHANGED <<order, now, btc, evm, last>>

\* The files sorted by mtime, newest first: element 0 is taken.
MostRecent(files) == files[Len(files)]

\* The fill step / maker-htlc-reverse.ts after execSync: the most recently
\* modified htlc_*testnet4*.json is read and its address saved in the order.
RecordHTLC(id) ==
    /\ built.op = "output"
    /\ built.pc[id] = "htlcCreated"
    /\ built' = [built EXCEPT
                   !.pc[id] = "recorded",
                   !.bitcoinHTLC[id] = FileOf(built, MostRecent(built.files))]
    /\ UNCHANGED <<order, now, btc, evm, last>>

\* The file a claim step takes: maker-claim-btc.ts the first match of
\* readdirSync, whose order the file system decides; taker-claim-btc-reverse.ts
\* the most recently modified one.
ClaimFiles(b, id) ==
    IF b.flows[id] = "forward" THEN {b.files[k] : k \in 1..Len(b.files)}
    ELSE {MostRecent(b.files)}

ClaimFromFile(id) ==
    /\ built.op = "output"
    /\ built.pc[id] = "recorded"
    /\ \E owner \in ClaimFiles(built, id) :
           built' = [built EXCEPT !.pc[id] = "claimed",
                                  !.claimFile[id] = FileOf(built, owner)]
    /\ UNCHANGED <<order, now, btc, evm, last>>

NextOutput ==
    \/ \E id \in OrderIds : RunCreateHTLC(id)
    \/ \E id \in OrderIds : RecordHTLC(id)
    \/ \E id \in OrderIds : ClaimFromFile(id)

SpecOutput == InitOutput /\ [][NextOutput]_vars

\* ------------------------------------------------------- the escrow factory
\* BTCEscrowFactory: createSrcEscrow / createDstEscrow take the escrow's funds
\* and the creation fee in msg.value; the owner sets the fee and the treasury.
MaxCreations == 2

CreationFees == {0, 1}

\* address(0), an account that accepts ETH, a contract that rejects it.
Treasuries == {"zero", "treasury", "rejecting"}

Tokens == {"eth", "erc20"}

EscrowAmounts == {1, 2}

SafetyDeposits == {0, 1}

MsgValues == 0 .. 4

FactoryImmutables ==
    [token : Tokens, amount : EscrowAmounts, safetyDeposit : SafetyDeposits]

NoBalances == [factory |-> 0, escrows |-> 0, treasury |-> 0, escrowTokens |-> 0]

NoCall ==
    [fn |-> "none", ok |-> FALSE, value |-> 0, requiredForEscrow |-> 0,
     creationFee |-> 0, treasury |-> "zero", before |-> NoBalances]

\* The constructor stores _creationFee and _treasury as given.
InitFactory ==
    /\ order = NoOrder
    /\ now = 0
    /\ btc = NoBtc
    /\ evm = NoEvm
    /\ last = NoRun
    /\ \E fee \in CreationFees, t \in Treasuries :
           built = [op |-> "factory", creationFee |-> fee, treasury |-> t,
                    created |-> 0, balances |-> NoBalances, call |-> NoCall]

RequiredForEscrow(im) ==
    IF im.token = "eth" THEN im.amount + im.safetyDeposit ELSE im.safetyDeposit

TotalRequired(b, im) == RequiredForEscrow(im) + b.creationFee

\* _deployEscrow: Create2.deploy(ethAmount, ...) moves ethAmount to the escrow.
DeployEscrowBalances(bal, ethAmount) ==
    [bal EXCEPT !.factory = bal.factory - ethAmount,
                !.escrows = bal.escrows + ethAmount]

\* _collectFee: pays the fee when it is positive and a treasury is set.
CollectFeePays(b) == b.creationFee > 0 /\ b.treasury # "zero"

CollectFeeBalances(b, bal) ==
    IF CollectFeePays(b)
    THEN [bal EXCEPT !.factory = bal.factory - b.creationFee,
                     !.treasury = bal.treasury + b.creationFee]
    ELSE bal

\* The record of a call; a revert leaves every balance as it was.
FactoryCall(fn, ok, value, im) ==
    [fn |-> fn, ok |-> ok, value |-> value,
     requiredForEscrow |-> RequiredForEscrow(im),
     creationFee |-> built.creationFee, treasury |-> built.treasury,
     before |-> built.balances]

FactoryReverts(fn, value, im) ==
    /\ built' = [built EXCEPT !.call = FactoryCall(fn, FALSE, value, im)]
    /\ UNCHANGED <<order, now, btc, evm, last>>

\* createSrcEscrow / createDstEscrow. fresh: no contract at the Create2
\* address yet; allowance: safeTransferFrom of an ERC20 amount goes through.
FactoryCreate(fn) ==
    /\ built.op = "factory"
    /\ built.created < MaxCreations
    /\ \E im \in FactoryImmutables, value \in MsgValues,
          fresh \in BOOLEAN, allowance \in BOOLEAN :
         LET received == [built.balances EXCEPT !.factory = @ + value]
             deployed == DeployEscrowBalances(received, RequiredForEscrow(im))
             funded == IF im.token = "eth" THEN deployed
                       ELSE [deployed EXCEPT !.escrowTokens = @ + im.amount]
         IN IF \/ value # TotalRequired(built, im)
               \/ ~fresh
               \/ (im.token # "eth" /\ ~allowance)
               \/ (CollectFeePays(built) /\ built.treasury = "rejecting")
            THEN FactoryReverts(fn, value, im)
            ELSE /\ built' = [built EXCEPT !.created = @ + 1,
                                           !.balances = CollectFeeBalances(built, funded),
                                           !.call = FactoryCall(fn, TRUE, value, im)]
                 /\ UNCHANGED <<order, now, btc, evm, last>>

CreateSrcEscrow == FactoryCreate("createSrcEscrow")

CreateDstEscrow == FactoryCreate("createDstEscrow")

SetCreationFee ==
    /\ built.op = "factory"
    /\ \E newFee \in CreationFees : built' = [built EXCEPT !.creationFee = newFee]
    /\ UNCHANGED <<order, now, btc, evm, last>>

SetTreasury ==
    /\ built.op = "factory"
    /\ \E newTreasury \in Treasuries : built' = [built EXCEPT !.treasury = newTreasury]
    /\ UNCHANGED <<order, now, btc, evm, last>>

NextFactory ==
    \/ CreateSrcEscrow
    \/ CreateDstEscrow
    \/ SetCreationFee
    \/ SetTreasury

SpecFactory == InitFactory /\ [][NextFactory]_vars

\* ------------------------------------------------------------------ claims
\* A script ran in this step (last.seq alternates on every run).
ScriptRan == last'.seq # last.seq

\* The documented order of the statuses.
StatusRank(st) ==
    CASE st = "CREATED" -> 1
      [] st = "FILLED" -> 2
      [] st = "FUNDED" -> 3
      [] st = "COMPLETED" -> 4
      [] OTHER -> 0

\* C1: in the forward flow the taker holds the escrowed ETH only if the
\* maker's BTC claim was accepted by the Bitcoin network.
C1_EthOnlyAfterBtcClaim ==
    (order.flow = "forward" /\ evm.kind = "src" /\ evm.state = "withdrawn"
        /\ evm.amountTo = "taker")
    => btc.claimTo = "maker"

\* C2: in the reverse flow the HTLC locktime is later than the end of the
\* escrow's withdrawal window (deployedAt + cancellationPeriod), and the maker
\* never both withdraws the ETH and refunds the BTC.
C2_LocktimeAfterWindow ==
    (order.flow = "reverse" /\ order.bitcoinHTLC.present /\ evm.kind = "dst")
    => order.bitcoinHTLC.locktime > TimelockGet(evm.deployedAt, CancellationPeriod)

C2_MakerNeverTakesBoth ==
    ~(order.flow = "reverse" /\ evm.kind = "dst" /\ evm.state = "withdrawn"
        /\ evm.amountTo = "maker" /\ btc.refundTo = "maker")

C2_RefundOpensAfterWithdrawWindow ==
    C2_LocktimeAfterWindow /\ C2_MakerNeverTakesBoth

\* C3: in the reverse flow, once the maker has withdrawn the ETH, the secret
\* branch of the HTLC is spendable with the revealed secret and the taker's key.
C3_TakerCanSpendSecretPath ==
    (order.flow = "reverse" /\ evm.kind = "dst" /\ evm.state = "withdrawn")
    => SecretPathValid(order.bitcoinHTLC, CalldataSecret(evm.calldata), "taker")

\* C4: the persisted status never moves backwards in
\* CREATED -> FILLED -> FUNDED -> COMPLETED.
C4_StatusNeverMovesBack ==
    [][StatusRank(order'.status) >= StatusRank(order.status)]_vars

\* C5: a step run on an order whose status is not the one the step expects
\* leaves the order file as it was.
ExpectedStatus(step) ==
    CASE step = "FillOrder" -> "CREATED"
      [] step = "MakerEscrow" -> "FILLED"
      [] step = "TakerFundHTLC" -> "FILLED"
      [] step = "MakerClaimBTC" -> "FUNDED"
      [] step = "TakerClaimETH" -> "COMPLETED"
      [] step = "MakerHTLCReverse" -> "CREATED"
      [] step = "MakerFundReverse" -> "CREATED"
      [] step = "TakerEscrowReverse" -> "FUNDED"
      [] step = "MakerClaimETHReverse" -> "FILLED"
      [] step = "TakerClaimBTCReverse" -> "COMPLETED"
      [] OTHER -> "NONE"

C5_UnexpectedStatusLeavesRecord ==
    [][(ScriptRan /\ ExpectedStatus(last'.step) # "NONE"
          /\ order.status # ExpectedStatus(last'.step))
       => order' = order]_vars

\* C6 (as stated): status FUNDED implies the record holds a Bitcoin HTLC, a
\* Monad escrow and the taker.
C6_FundedHasAllThree ==
    order.status = "FUNDED"
    => (order.bitcoinHTLC.present /\ order.monadvmEscrow.present /\ order.taker)

\* C6 (amended): status FUNDED implies the record holds a Bitcoin HTLC and, in
\* the forward flow, also a Monad escrow and the taker.
C6_FundedHasHTLC ==
    order.status = "FUNDED"
    => /\ order.bitcoinHTLC.present
       /\ order.flow = "forward" => (order.monadvmEscrow.present /\ order.taker)

C6_FundedByTaker ==
    /\ order.flow = "forward"
    /\ order.status = "FUNDED"
    /\ last.step = "TakerFundHTLC"
    /\ last.ok

\* C7: a claim step run on a FUNDED order without a bitcoinHTLCFunding
\* reference fails, submits nothing and leaves the order and both chains as
\* they were.
ClaimSteps == {"MakerClaimBTC", "MakerClaimETHReverse", "TakerClaimBTCReverse"}

C8_MismatchAborts ==
    [][(ScriptRan /\ last'.step \in {"MakerClaimBTC", "MakerClaimETHReverse"}
          /\ order.flow # "none" /\ Sha256(order.secret) # order.hashlock)
       => (~last'.ok /\ last'.sent = {} /\ order' = order)]_vars

\* C9: rerunning the funding step on an order that has a funding reference,
\* or the escrow-creation step on an order that has an escrow, submits no
\* further funding transaction and creates no further escrow.
C9_RerunSubmitsNothing ==
    [][(ScriptRan
          /\ \/ /\ last'.step \in {"TakerFundHTLC", "MakerFundReverse"}
                /\ order.transactions.bitcoinHTLCFunding # "none"
             \/ /\ last'.step \in {"MakerEscrow", "TakerEscrowReverse"}
                /\ order.monadvmEscrow.present)
       => (btc'.fundTxs = btc.fundTxs /\ evm'.created = evm.created)]_vars

\* C10: bitcoinHTLCClaim is recorded only when the claim transaction was
\* accepted by the Bitcoin network.
C10_ClaimRecordedOnlyIfAccepted ==
    order.transactions.bitcoinHTLCClaim # "none" => btc.claimTo # "none"

\* C11: a funding step writes FUNDED and a bitcoinHTLCFunding reference only
\* with the transaction id of a funding transaction the network accepted; a
\* funding step whose transaction was not accepted ends in an error and leaves
\* the order file as it was.
FundingSteps == {"TakerFundHTLC", "MakerFundReverse"}

C11_FundedOnlyByBroadcast ==
    [][(ScriptRan /\ last'.step \in FundingSteps)
       => IF btc'.fundTxs > btc.fundTxs
          THEN /\ order'.status = "FUNDED"
               /\ IsTxid(order'.transactions.bitcoinHTLCFunding)
          ELSE ~last'.ok /\ order' = order]_vars

\* C12: from every state before COMPLETED in which the cancellation timelock
\* of the order's HTLC has elapsed, some step moves the order to CANCELLED.
PreCompleted == {"CREATED", "FILLED", "FUNDED"}

CancellationElapsed ==
    order.bitcoinHTLC.present /\ now >= order.bitcoinHTLC.locktime

MovesToCancelled == Next /\ order'.status = "CANCELLED"

C12_CancelStepExists ==
    (order.status \in PreCompleted /\ CancellationElapsed)
    => ENABLED MovesToCancelled

\* C13: in both flows a step has succeeded on the order only if every earlier
\* step of the documented sequence has succeeded on it, and the maker's BTC
\* claim has succeeded only if a funding transaction was accepted before.
ForwardSequence ==
    <<"CreateOrder", "FillOrder", "MakerEscrow", "TakerFundHTLC",
      "MakerClaimBTC", "TakerClaimETH">>

ReverseSequence ==
    <<"CreateOrderReverse", "MakerHTLCReverse", "MakerFundReverse",
      "TakerEscrowReverse", "MakerClaimETHReverse", "TakerClaimBTCReverse">>

InSequence(seq) ==
    \A i \in DOMAIN seq :
        seq[i] \in last.succeeded => \A j \in 1..(i - 1) : seq[j] \in last.succeeded

C13_StepsSucceedInOrder ==
    /\ InSequence(ForwardSequence)
    /\ InSequence(ReverseSequence)
    /\ "MakerClaimBTC" \in last.succeeded => btc.fundTxs > 0

C13_LastStepSucceeded ==
    /\ last.ok
    /\ last.step \in {"TakerClaimETH", "TakerClaimBTCReverse"}
    /\ Len(SelectSeq(ForwardSequence, LAMBDA st : st \in last.succeeded)) = 6
       \/ Len(SelectSeq(ReverseSequence, LAMBDA st : st \in last.succeeded)) = 6

\* C14: the claim built by claim-htlc-reverse spends the script that
\* HTLCBuilder.createHTLC compiles for the same configuration, whether the
\* script is taken from the HTLC file or rebuilt by the script's own
\* createHTLCScript (same script, hence same script hash and address).
C14_SameScript ==
    (built.op = "claimHTLC" /\ built.out.error = "none")
    => built.out.tx.witness[4] = CreateHTLC(built.config).witnessScript

\* C15: every funding transaction balances with the reported fee, sum(inputs)
\* = sum(outputs) + fee, and createFundingTransaction reports
\* fee = ceil(estimatedSize * feeRate).
FundingOps == {"createFundingTransaction", "fundHtlc"}

C15_FundingBalances ==
    (built.op \in FundingOps /\ built.out.error = "none")
    => /\ Sum(built.out.tx.inputs) = Sum(built.out.tx.outputs) + built.out.fee
       /\ built.op = "createFundingTransaction"
          => built.out.fee = Fee(FundingEstimatedSize(Len(built.out.tx.inputs)),
                                 built.feeRateTenths)

\* C16: a claim or refund construction whose input value minus fee is not
\* positive fails with InsufficientFunds before any signature is made.
SpendOps == {"createClaimTransaction", "createRefundTransaction", "claimHTLC"}

SpendFee(b) ==
    Fee(IF b.op = "claimHTLC" THEN ClaimReverseEstimatedSize
        ELSE SpendEstimatedSize(b.config),
        b.feeRateTenths)

ReachesFee(b) ==
    IF b.op = "claimHTLC" THEN Sha256Bytes(b.secret) = HashBytes(b.config.hashlock)
    ELSE b.config.useSegwit

C16_NoOutputBelowFee ==
    (built.op \in SpendOps /\ ReachesFee(built) /\ built.amount - SpendFee(built) <= 0)
    => (built.out.error = "InsufficientFunds" /\ ~built.out.signed)

\* C17: a funding transaction is signed only if the selected inputs cover
\* amount + fee.
C17_SignedOnlyIfCovered ==
    (built.op \in FundingOps /\ built.out.signed)
    => Sum(built.out.tx.inputs) >= built.amount + built.out.fee

\* C18: the extractor applied to the claim transaction that
\* createClaimTransaction built with a 32-byte secret returns that secret.
C18_ExtractReturnsSecret ==
    (built.op = "extractSecretFromTransaction" /\ built.from = "createClaimTransaction"
        /\ Len(built.secret) = SecretLength)
    => built.extracted = [kind |-> "buffer", value |-> built.secret]

C18_SecretExtracted ==
    /\ built.op = "extractSecretFromTransaction"
    /\ built.from = "createClaimTransaction"
    /\ Len(built.secret) = SecretLength
    /\ built.extracted.kind = "buffer"
    /\ Len(built.out.tx.witness) = 4

\* C19: when the stack the extractor reads (input 0's witness, or the
\* script-sig when there is no witness) has fewer than two elements, the
\* extractor reports failure and returns no value as the secret.
ReadsShortStack(tx) ==
    IF Len(tx.witness) > 0 THEN Len(tx.witness) < 2 ELSE Len(tx.scriptSig) < 2

C20_RefundLocktimeAndSequence ==
    (built.op = "createRefundTransaction" /\ built.out.error = "none")
    => /\ built.out.tx.locktime = built.config.locktime
       /\ Below32(built.out.tx.sequence, Word32(65535, 65535))

C20_RefundBuilt ==
    /\ built.op = "createRefundTransaction"
    /\ built.out.error = "none"
    /\ built.out.signed
    /\ built.out.tx.locktime = 1700000000

\* C21: the claim-path guard of createClaimTx and claimHTLC accepts a secret
\* and a hashlock exactly when the hashlock is the SHA-256 of the secret, and a
\* rejected pair ends in SecretMismatch with nothing built and nothing signed.
GuardedClaims == {"createClaimTx", "claimHTLC"}

SecretHashesTo(secret, hashlock) == Sha256(secret[1]) = hashlock

C21_GuardAcceptsExactlyMatching ==
    built.op \in GuardedClaims
    => /\ built.out.error = "SecretMismatch"
          <=> ~SecretHashesTo(built.secret, built.config.hashlock)
       /\ built.out.error = "SecretMismatch"
          => (~built.out.signed /\ built.out.tx = NewTx(<<>>, <<>>))

C21_MismatchRejected ==
    /\ built.op \in GuardedClaims
    /\ ~SecretHashesTo(built.secret, built.config.hashlock)
    /\ built.out.error = "SecretMismatch"

\* C22 (as stated): an HTLC address built for a network selector is accepted
\* by validateHTLCAddress against that selector and rejected against every
\* other selector.
C22_ValidOnlyOnOwnNetwork ==
    built.op = "validateHTLCAddress"
    => (built.valid <=> built.against = built.network)

\* C22 (amended): the address is accepted against its own selector, and it is
\* accepted against another selector only among the test networks that share
\* its encoding: testnet and testnet4 for SegWit addresses, and testnet,
\* testnet4 and regtest for P2SH addresses.
SharedEncoding(c) ==
    IF c.useSegwit THEN {"testnet", "testnet4"} ELSE {"testnet", "testnet4", "regtest"}

C22_ValidOnOwnEncoding ==
    built.op = "validateHTLCAddress"
    => /\ built.against = built.network => built.valid
       /\ (built.valid /\ built.against # built.network)
          => {built.network, built.against} \subseteq SharedEncoding(built.config)

C22_TestnetAddressOnTestnet4 ==
    /\ built.op = "validateHTLCAddress"
    /\ built.network = "testnet"
    /\ built.against = "testnet4"
    /\ built.valid

\* C23: on every claim path, the single output of a built claim transaction
\* is the value of the HTLC output it spends minus the fee.
ClaimOps == {"createClaimTransaction", "createClaimTx", "claimHTLC"}

C23_ClaimPaysSpentMinusFee ==
    (built.op \in ClaimOps /\ built.out.error = "none")
    => /\ built.out.tx.inputs = <<built.amount>>
       /\ built.out.tx.outputs = <<built.amount - built.out.fee>>

\* C24: after a step crashed while persisting the order, the order file holds
\* either the complete previous record or the complete new record.
C24_CrashLeavesCompleteRecord ==
    (built.op = "persist" /\ built.pc = "crashed")
    => /\ Parses(built.file)
       /\ JsonParse(built.file) \in {built.previous, order}

\* C25: a broadcast that failed is retried over another transport before the
\* step ends in a fatal error.
FailedRequests(b, request) ==
    {i \in 1..Len(b.requests) : b.requests[i].request = request /\ ~b.requests[i].ok}

Retried(b, i) ==
    \E j \in (i + 1)..Len(b.requests) :
        /\ b.requests[j].request = b.requests[i].request
        /\ b.requests[j].transport # b.requests[i].transport

C25_BroadcastRetriedBeforeFatal ==
    (built.op = "fund" /\ built.exit = "1")
    => \A i \in FailedRequests(built, "broadcast") : Retried(built, i)

\* C26: getUTXOs makes at most two attempts, the second over curl after the
\* first failed; the funding step ends with "no UTXOs" only after both
\* failed; and the step always ends.
UtxoRequests(b) == SelectSeq(b.requests, LAMBDA r : r.request = "utxo")

C28_SameHashlockOnBothChains ==
    /\ order.bitcoinHTLC.present => order.bitcoinHTLC.hashlock = order.hashlock
    /\ evm.created > 0 => evm.hashlock = order.hashlock

C28_BothSidesCreated ==
    /\ order.bitcoinHTLC.present
    /\ order.monadvmEscrow.present
    /\ evm.created > 0
    /\ order.bitcoinHTLC.hashlock = evm.hashlock

\* C27: every escrow created by maker-escrow or taker-escrow-reverse has
\* packed periods with withdrawal <= publicWithdrawal <= cancellation.
EscrowCreated(b) == b.op = "escrow" /\ b.pc \in {"confirmed", "saved"}

C27_CreatedOnlyWithOrderedPeriods ==
    EscrowCreated(built)
    => /\ Leq(built.dstWithdrawal, built.dstPublicWithdrawal)
       /\ Leq(built.dstPublicWithdrawal, built.dstCancellation)

\* C29: the fields decoded from the packed timelocks word are the withdrawal,
\* public withdrawal and cancellation values that were packed.
Decodes(timelocks, stage, value) == value = TimelockField(timelocks, stage) \o <<0>>

C29_DecodeReturnsPacked ==
    (built.op = "escrow" /\ built.pc # "start")
    => /\ Decodes(built.timelocks, 0, built.dstWithdrawal)
       /\ Decodes(built.timelocks, 1, built.dstPublicWithdrawal)
       /\ Decodes(built.timelocks, 2, built.dstCancellation)

\* C30: the address saved in the order is the address the escrow was
\* deployed at.
C30_SavedAddressIsDeployed ==
    (built.op = "escrow" /\ built.pc = "saved") => built.address = built.deployed

\* C31: the immutables rebuilt by the claim script equal, field for field,
\* the immutables the factory hashed when it deployed the escrow.
C31_RebuiltEqualsDeployed ==
    (built.op = "escrow" /\ built.pc = "rebuilt") => built.rebuilt = built.immutables

C31_RebuiltAfterLaterBlocks ==
    /\ built.op = "escrow"
    /\ built.pc = "rebuilt"
    /\ now > built.escrowCreationTime
    /\ built.swap.makerAddress # SignerAddress("maker")
    /\ built.rebuilt.timelocks # built.timelocks

\* C32: the HTLC address saved in an order is the address derived from that
\* order's own hashlock and keys, however the steps of the orders interleave.
C32_RecordedOwnHTLC ==
    built.op = "output"
    => \A id \in OrderIds :
           built.pc[id] \in {"recorded", "claimed"}
           => built.bitcoinHTLC[id].address = FileOf(built, id).address

\* C33: the claim step of an order builds its claim from the HTLC file whose
\* address is the order's bitcoinHTLC.address.
C33_ClaimsFromOwnFile ==
    built.op = "output"
    => \A id \in OrderIds :
           built.pc[id] = "claimed"
           => built.claimFile[id].address = built.bitcoinHTLC[id].address

\* C34: in the forward flow the escrow's cancellation time is later than the
\* locktime of the Bitcoin HTLC.
C34_EscrowCancelsAfterHTLCLocktime ==
    (order.flow = "forward" /\ order.bitcoinHTLC.present /\ evm.kind = "src")
    => TimelockGet(evm.deployedAt, CancellationPeriod) > order.bitcoinHTLC.locktime

\* C35: for every escrow, every choice of periods and every time, withdraw
\* and publicWithdraw are never enabled together with cancel; withdraw is not
\* enabled before deployedAt + withdrawal, publicWithdraw not before
\* deployedAt + publicWithdrawal.
EscrowPeriods == {0, TickSeconds, 2 * TickSeconds}

WithdrawWindow(withdrawal, cancellation) ==
    /\ OnlyAfter(TimelockGet(evm.deployedAt, withdrawal))
    /\ OnlyBefore(TimelockGet(evm.deployedAt, cancellation))

CancelWindow(cancellation) == OnlyAfter(TimelockGet(evm.deployedAt, cancellation))

C36_PayoutDirections ==
    /\ (evm.state = "withdrawn" /\ evm.kind = "src")
         => (evm.amountTo = "taker" /\ evm.depositTo = "maker")
    /\ (evm.state = "withdrawn" /\ evm.kind = "dst")
         => (evm.amountTo = "maker" /\ evm.depositTo = "taker")
    /\ (evm.state = "cancelled" /\ evm.kind = "src")
         => (evm.amountTo = "maker" /\ evm.depositTo = "maker")
    /\ (evm.state = "cancelled" /\ evm.kind = "dst")
         => (evm.amountTo = "taker" /\ evm.depositTo = "taker")

C36_DstWithdrawnByMaker ==
    /\ evm.state = "withdrawn"
    /\ evm.kind = "dst"
    /\ last.step = "MakerClaimETHReverse"

\* C37: a creation succeeds only when msg.value is exactly the escrow's
\* requirement plus the creation fee, a reverted creation changes no balance,
\* and after a successful one the factory holds nothing of the value sent: the
\* requirement is in the escrow and the fee in the treasury.
C37_ExactValueNothingRetained ==
    (built.op = "factory" /\ built.call.fn # "none")
    => /\ built.call.ok
            => built.call.value = built.call.requiredForEscrow + built.call.creationFee
       /\ ~built.call.ok => built.balances = built.call.before
       /\ built.call.ok
            => /\ built.balances.factory = built.call.before.factory
               /\ built.balances.escrows
                     = built.call.before.escrows + built.call.requiredForEscrow
               /\ built.balances.treasury
                     = built.call.before.treasury + built.call.creationFee

\* C38: the value taker-claim-btc-reverse extracts from the data of the
\* transaction sent by maker-claim-eth-reverse is the secret that script passed
\* to withdraw, and a run of the taker's step whose extracted value does not
\* hash to order.hashlock fails and leaves the order as it was.
C38_MakerSent ==
    /\ ScriptRan
    /\ last'.step = "MakerClaimETHReverse"
    /\ last'.ok

C38_TakerFoundMismatch ==
    /\ ScriptRan
    /\ last'.step = "TakerClaimBTCReverse"
    /\ TxDataLength(evm.calldata) >= 74
    /\ Sha256Bytes(HexToBytes(ExtractedSecret(evm.calldata))) # HashBytes(order.hashlock)

C38_ExtractedIsPassedSecret ==
    [][/\ C38_MakerSent
          => /\ TxDataLength(evm'.calldata) >= 74
             /\ ExtractedSecret(evm'.calldata) = HexString(SecretBytes(order.secret))
       /\ C38_TakerFoundMismatch => (~last'.ok /\ order' = order)]_vars

C38_AbortedOnMismatch ==
    /\ order.flow = "reverse"
    /\ last.step = "TakerClaimBTCReverse"
    /\ ~last.ok
    /\ TakerClaimBTCReverseGuard(order)
    /\ TxDataLength(evm.calldata) >= 74
    /\ ExtractedSecret(evm.calldata) = HexString(SecretBytes(order.secret))
    /\ Sha256Bytes(HexToBytes(ExtractedSecret(evm.calldata))) # HashBytes(order.hashlock)
====
